---- MODULE Spec2Model ----
(***************************************************************************)
(* SiteSurgeon backend: the issue pipeline (services/issueProcessor.ts),   *)
(* the classification wrapper (services/aiClassifier.ts), the coding agent *)
(* (agents/codingAgent.ts) and the E2B sandbox manager                     *)
(* (sandbox/sandboxManager.ts).                                            *)
(*                                                                         *)
(* One pipeline task per accepted report.  runPipeline is an async         *)
(* function: it is cut at its await points and at its writes of `status`,  *)
(* so that every status the store ever holds is a state of the model.      *)
(*                                                                         *)
(* Spec: one report, every answer of the collaborators.  SpecLive: Spec    *)
(* with every enabled step eventually taken.  SpecCrash: Spec with         *)
(* exceptions outside the try blocks.  SpecConc: two reports at once.      *)
(* SpecDestroy: destroySandbox called twice on one context.                *)
(*                                                                         *)
(* Functions exercised on their own, over bounded sets of arguments:       *)
(* SpecIdentify (identifyRelevantFiles), SpecGenerate (generateFix),       *)
(* SpecInstall (installDependencies), SpecTests (runTestsOrBuild).         *)
(***************************************************************************)
EXTENDS Integers, Sequences, FiniteSets, TLC

VARIABLES env, store, pc, loc, alive, created, hist

vars == <<env, store, pc, loc, alive, created, hist>>

\* Number of files `find` lists in the cloned repository (listRepoFiles).
NumFiles == 2

\* Number of characters of prose around the object in a generateFix reply.
MaxProse == 3

\* Number of sandbox ids when destroySandbox is exercised on its own.
MaxSandboxes == 2

\* Ids of the reports that can arrive (uuidv4 values).
Issues == {"i1", "i2"}

\* JavaScript's undefined, for the optional fields of an Issue.
Undef == "undefined"

\* One diagnostic line: a fixed text and the interpolated value.
L(text, arg) == <<text, arg>>

Terminal == {"merged", "pr_opened", "notified", "failed"}

\* The relative paths of the repository, in listing order.
RepoFiles == [k \in 1 .. NumFiles |-> ToString(k)]

Prefixes(s) == {SubSeq(s, 1, n) : n \in 0 .. Len(s)}

Range(s) == {s[k] : k \in 1 .. Len(s)}

----------------------------------------------------------------------------
(* The issue store (utils/store): a map keyed by id.                       *)

\* issueStore.update(id, partial): the fields of partial replace the record's.
issueStoreUpdate(s, id, partial) ==
    IF id \notin DOMAIN s THEN s
    ELSE [s EXCEPT ![id] =
            [k \in DOMAIN s[id] |->
                IF k \in DOMAIN partial THEN partial[k] ELSE s[id][k]]]

\* issueStore.save(issue)
issueStoreSave(s, issue) == (issue.id :> issue) @@ s

\* update(id, partial) of issueProcessor.ts
update(s, id, partial) == issueStoreUpdate(s, id, partial)

\* Mutant: the new lines replace the log.
appendLogsOverwrites(s, id, newLogs) ==
    IF id \notin DOMAIN s THEN s
    ELSE issueStoreUpdate(s, id, [sandboxLogs |-> newLogs])

\* Mutant: one log shared by all issues.
appendLogsToAll(s, id, newLogs) ==
    [k \in DOMAIN s |-> [s[k] EXCEPT !.sandboxLogs = @ \o newLogs]]

\* appendLogs(issueId, newLogs) of issueProcessor.ts
appendLogs(s, id, newLogs) ==
    IF id \notin DOMAIN s THEN s
    ELSE issueStoreUpdate(s, id, [sandboxLogs |-> s[id].sandboxLogs \o newLogs])

\* The Issue built by processIssue from the request body.
NewIssue(id, body) ==
    [id |-> id, title |-> body.title, description |-> body.description,
     stepsToReproduce |-> body.stepsToReproduce, severity |-> body.severity,
     repoUrl |-> body.repoUrl, createdAt |-> "now", status |-> "received",
     aiDecision |-> Undef, aiReason |-> L(Undef, ""), sandboxId |-> Undef,
     sandboxLogs |-> <<>>, branchName |-> Undef, prUrl |-> Undef,
     patchSummary |-> Undef, commitMessage |-> Undef]

\* Request bodies: repoUrl is optional at intake (routes/issueRoutes.ts).
Bodies ==
    {[title |-> "Login fails", description |-> "500 on submit",
      stepsToReproduce |-> "Open /login, submit", severity |-> "high", repoUrl |-> u] :
        u \in {"https://github.com/o/r", Undef}}

----------------------------------------------------------------------------
(* Classification: aiService.classifyIssue and the aiClassifier wrapper.   *)

\* The text of a reply, in pieces: a label, another word, a blank or a mark.
Replies ==
    {<<"AUTOMATED">>, <<"MANUAL">>, <<" ", "automated", ".">>,
     <<"I", " ", "think", " ", "so">>, <<>>}

\* What the chat-completion call can do: raise, or reply with some content
\* (no content reads as the empty text).
ClassifyOutcomes ==
    {[ok |-> FALSE, content |-> <<>>]} \cup {[ok |-> TRUE, content |-> r] : r \in Replies}

\* String.prototype.trim, on pieces.
RECURSIVE trim(_)
trim(text) ==
    IF text = <<>> THEN text
    ELSE IF Head(text) = " " THEN trim(Tail(text))
    ELSE IF text[Len(text)] = " " THEN trim(SubSeq(text, 1, Len(text) - 1))
    ELSE text

\* String.prototype.toUpperCase, on the pieces of Replies.
toUpperCase(text) ==
    [k \in 1 .. Len(text) |->
        CASE text[k] = "automated" -> "AUTOMATED"
          [] text[k] = "think" -> "THINK"
          [] text[k] = "so" -> "SO"
          [] OTHER -> text[k]]

\* String.prototype.startsWith, for a word that is one piece.
startsWith(text, word) == Len(text) > 0 /\ text[1] = word

\* Mutant: MANUAL is the label looked for, AUTOMATED the default.
aiClassifyDefaultsAutomated(content) ==
    IF startsWith(toUpperCase(trim(content)), "MANUAL") THEN "MANUAL" ELSE "AUTOMATED"

\* aiService.classifyIssue, lines 63-64:
\* raw.startsWith('AUTOMATED') ? 'AUTOMATED' : 'MANUAL'
aiClassify(content) ==
    IF startsWith(toUpperCase(trim(content)), "AUTOMATED") THEN "AUTOMATED" ELSE "MANUAL"

\* The catch branch of aiClassifier.classifyIssue.
classifyFallback ==
    [decision |-> "AUTOMATED",
     reason |-> L("AI classifier unavailable; defaulting to automated pipeline.", ""),
     confidence |-> 50]

\* aiClassifier.classifyIssue, as a completion: both branches of its try
\* statement return.
classifyIssue(out) ==
    IF out.ok
    THEN [kind |-> "return",
          value |-> [decision |-> aiClassify(out.content),
                     reason |-> L("AI classified this as", aiClassify(out.content)),
                     confidence |-> 85]]
    ELSE [kind |-> "return", value |-> classifyFallback]

\* The initial value of `classification` in runPipeline.
DefaultClassification ==
    [decision |-> "MANUAL", reason |-> L("Default", ""), confidence |-> 0]

----------------------------------------------------------------------------
(* Locals of one runPipeline call, and what the model remembers of a run.  *)

NoCtx == [sandboxId |-> 0, logs |-> <<>>]

NoAgentResult ==
    [success |-> FALSE, patch |-> <<"", <<>>>>, commitMessage |-> "",
     filesChanged |-> <<>>, logs |-> <<>>, error |-> Undef]

NoPr == [prUrl |-> Undef, branchName |-> Undef, merged |-> FALSE]

\* pending: how the try block of lines 137-167 was left (normal, return, throw).
\* input: the arguments, when a function is exercised on its own.
InitLoc ==
    [classification |-> DefaultClassification, ctx |-> NoCtx,
     agentResult |-> NoAgentResult, filesForGithub |-> <<>>,
     commitMessage |-> "fix: AI automated fix",
     patchSummary |-> "Placeholder fix committed by Site Surgeon demo.",
     pending |-> [kind |-> "normal", msg |-> ""], prResult |-> NoPr,
     input |-> <<>>]

\* What is remembered of one call of destroySandbox: the kill outcome, how
\* the call completed, the sandboxes alive before and after, ctx.logs after.
NoDestroy == [out |-> "none", kind |-> "none", before |-> {}, alive |-> {}, logs |-> <<>>]

\* No issue object yet; no value returned by processIssue yet.  settled: the
\* number of awaited calls of the pipeline that had completed at the return.
NoIssue == [id |-> Undef, status |-> Undef]

NoAck == [returned |-> FALSE, value |-> NoIssue, settled |-> 0]

\* What the issue record held when a call was made: nothing yet.
NoSnapshot == [status |-> Undef, sandboxLogs |-> <<>>]

\* What the read loop of the agent did: nothing yet.
NoReadStep ==
    [reached |-> FALSE, candidates |-> <<>>, readOk |-> {},
     generateFix |-> [called |-> FALSE, files |-> {}]]

NoCalls ==
    [classify |-> 0, createSandbox |-> 0, cloneRepo |-> 0, agent |-> 0,
     destroy |-> 0, github |-> 0, manualEmail |-> 0, fixEmail |-> 0]

\* commit: whether destroySandbox had completed when the terminal status was
\* written ("none": no terminal status yet, "noctx": no context was created).
InitHist ==
    [calls |-> NoCalls, classifyFailed |-> FALSE, cloneFailed |-> FALSE,
     cloneMsg |-> "", allocated |-> {}, destroyDone |-> FALSE,
     killFailed |-> FALSE, commit |-> "none", agentRaised |-> FALSE,
     agentFailedStep |-> FALSE, agentCallRaised |-> FALSE, githubFiles |-> <<>>,
     ghOutcome |-> "none", prReturned |-> NoPr, trace |-> <<>>,
     crashed |-> FALSE, crashStatus |-> Undef,
     classifyOut |-> [ok |-> FALSE, content |-> <<>>],
     classified |-> [kind |-> "none", value |-> DefaultClassification],
     first |-> NoDestroy, second |-> NoDestroy, written |-> {}, errors |-> <<>>,
     issueObj |-> NoIssue, ack |-> NoAck, responses |-> <<>>,
     readStep |-> NoReadStep, output |-> <<>>,
     at |-> [w \in {"classify", "createSandbox", "cloneRepo", "agent", "github"} |->
                NoSnapshot]]

Called(h, what) == [h EXCEPT !.calls[what] = @ + 1]

\* Count a call and remember the status and the log of the issue record at
\* the time it was made (the record is not written while the call runs).
CalledAt(h, what, record) ==
    [h EXCEPT !.calls[what] = @ + 1,
              !.at[what] = [status |-> record.status,
                            sandboxLogs |-> record.sandboxLogs]]

\* Remember what a collaborator answered at a step (kept when the answers are
\* narrowed, for the comparison of two pipelines).
Responded(e, h, step, value) ==
    IF e.narrow THEN [h EXCEPT !.responses = Append(@, <<step, ToString(value)>>)]
    ELSE h

\* The number of awaited calls of the pipeline that have completed.
CallsSettled(h) ==
    h.calls.classify + h.calls.createSandbox + h.calls.cloneRepo + h.calls.agent
    + h.calls.destroy + h.calls.github + h.calls.manualEmail + h.calls.fixEmail

\* Remember an error that a catch block absorbed, with the length the issue's
\* sandboxLogs had when it was raised.
Absorbed(failed, h, kind, logs) ==
    IF failed THEN [h EXCEPT !.errors = Append(@, [kind |-> kind, logLen |-> Len(logs)])]
    ELSE h

\* Remember, at a write of status, the value written (trace) and, for the
\* first terminal one, the state of the cleanup.
AtStatus(h, l, status) ==
    IF status \in Terminal /\ h.commit = "none"
    THEN [h EXCEPT !.trace = Append(@, status),
                   !.commit =
                      IF l.ctx = NoCtx THEN "noctx"
                      ELSE IF h.destroyDone THEN "destroyed" ELSE "pending"]
    ELSE [h EXCEPT !.trace = Append(@, status)]

----------------------------------------------------------------------------
(* sandbox/sandboxManager.ts                                               *)

\* toCloneUrl(repoUrl): a trailing slash and a trailing .git are dropped, .git
\* is added (on the locators of Bodies).
toCloneUrl(repoUrl) ==
    CASE repoUrl = "https://github.com/o/r" -> "https://github.com/o/r.git"
      [] repoUrl = "https://github.com/o/r/" -> "https://github.com/o/r.git"
      [] repoUrl = "https://github.com/o/r.git" -> "https://github.com/o/r.git"

\* repoName(repoUrl) calls repoUrl.replace: a TypeError when repoUrl is undefined.
repoNameRaises(repoUrl) == repoUrl = Undef

\* What `ls repoDir` can print (manifest artifacts only).
Listings == {{}, {"package-lock.json", "requirements.txt"}, {"pyproject.toml"}}

\* The manifest names that occur inside a file name (itself, for a manifest).
NamesWithin(file) ==
    CASE file = "dev-requirements.txt" -> {"requirements.txt"}
      [] file = "package-lock.json.bak" -> {"package-lock.json"}
      [] OTHER -> {file}

\* files.includes(name): `files` is the output of ls as one string, so the
\* name is found wherever it occurs, inside a longer file name too.
includes(files, name) == \E f \in files : name \in NamesWithin(f)

\* installDependencies: the command chosen from the listing, first match wins.
installCmd(files) ==
    IF includes(files, "package-lock.json") THEN "npm install --legacy-peer-deps"
    ELSE IF includes(files, "yarn.lock") THEN "yarn install --non-interactive"
    ELSE IF includes(files, "pnpm-lock.yaml") THEN "pnpm install --frozen-lockfile"
    ELSE IF includes(files, "requirements.txt") THEN "pip install -r requirements.txt"
    ELSE IF includes(files, "pyproject.toml") THEN "pip install ."
    ELSE Undef

\* run(sbx, cmd, cwd, logs): "ok", "exit" (non-zero exit code) or "raise"
\* (commands.run itself rejects).  The log line pushed, and the completion.
runLogs(cmd, out) ==
    CASE out = "ok" -> <<L("[run] OK", cmd)>>
      [] out = "exit" -> <<L("[run] EXIT", cmd)>>
      [] OTHER -> <<>>

\* The message of the error run() raises for that outcome.
runMsg(cmd, out) ==
    IF out = "exit" THEN ToString(<<"Command failed (exit 1)", cmd>>)
    ELSE ToString(<<"commands.run rejected", cmd>>)

RunOutcomes == {"ok", "exit", "raise"}

\* The lines installDependencies pushes to ctx.logs for a listing and the
\* outcome of the install command.
installLogs(files, out) ==
    IF installCmd(files) = Undef
    THEN <<L("[install] No package manager detected - skipping.", "")>>
    ELSE <<L("[install] Running", installCmd(files))>>
         \o runLogs(installCmd(files), out)
         \o (IF out = "ok" THEN <<L("[install] Done.", "")>>
             ELSE <<L("[install] Warning", runMsg(installCmd(files), out))>>)

\* sandbox.kill(): "ok", or it rejects with the sandbox gone or still there.
KillOutcomes == {"ok", "raise_gone", "raise_alive"}

\* The sandboxes alive after destroySandbox(ctx) with that kill outcome.
destroySandbox(sandboxes, ctx, out) ==
    IF out = "raise_alive" THEN sandboxes ELSE sandboxes \ {ctx.sandboxId}

\* Mutant: a rejected kill is passed on to the caller.
destroyRethrows(out) == IF out = "ok" THEN "return" ELSE "throw"

\* How destroySandbox completes: the try block ends normally, and so does the
\* catch block, which only logs (lines 221-226).
destroyKind(out) == "return"

\* ctx.repoDir for the locator of Bodies: workDir '/home/user' and
\* repoName(repoUrl), as the directories below the root.
RepoDir == <<"home", "user", "r">>

\* path.split('/') on the paths of the model; a repository file is a name.
pathSegments(path) ==
    CASE path = "../outside.ts" -> <<"..", "outside.ts">>
      [] path = "/etc/passwd" -> <<"", "etc", "passwd">>
      [] OTHER -> <<path>>

\* The location a path names in the sandbox's file system: empty and "."
\* segments are skipped, ".." drops the last directory (none above the root).
RECURSIVE resolve(_, _)
resolve(segments, at) ==
    IF segments = <<>> THEN at
    ELSE IF Head(segments) \in {"", "."} THEN resolve(Tail(segments), at)
    ELSE IF Head(segments) = ".."
    THEN resolve(Tail(segments),
                 IF at = <<>> THEN at ELSE SubSeq(at, 1, Len(at) - 1))
    ELSE resolve(Tail(segments), Append(at, Head(segments)))

\* writeFile(ctx, relativePath, content): the location files.write is given,
\* `${ctx.repoDir}/${relativePath}`, with no check of relativePath.
writeFileTarget(relativePath) == resolve(pathSegments(relativePath), RepoDir)

\* ctx.logs after destroySandbox: the line is pushed only when kill resolved.
destroyLogs(ctx, out) ==
    IF out = "ok"
    THEN Append(ctx.logs, L("[sandbox] Destroyed", ToString(ctx.sandboxId)))
    ELSE ctx.logs

----------------------------------------------------------------------------
(* agents/codingAgent.ts                                                   *)

\* Mutant: the catch block rethrows instead of returning a failed result.
AgentCatchRethrows(logs, message) ==
    [kind |-> "throw", msg |-> message, value |-> NoAgentResult]

\* The catch block of runCodingAgent: a failed AgentResult, returned.
AgentCatch(logs, message) ==
    [kind |-> "return", msg |-> "",
     value |-> [success |-> FALSE, patch |-> <<"", <<>>>>, commitMessage |-> "",
                filesChanged |-> <<>>,
                logs |-> Append(logs, L("Agent error", message)),
                error |-> message]]

\* Lines 51-60: the keys of fileContents after the read loop, the candidates
\* whose readFile resolved.
fileContents(o) == {p \in Range(o.relevant) : p \in o.readable}

\* Mutant: one unreadable candidate fails the run.
SomeCandidateUnread(o) == fileContents(o) # Range(o.relevant)

\* Line 62: Object.keys(fileContents).length === 0.
NothingRead(o) == fileContents(o) = {}

\* The lines of the read loop (step 3), one per candidate path.
ReadLogs(relevant, readable) ==
    [k \in 1 .. Len(relevant) |->
        IF relevant[k] \in readable THEN L("Read", relevant[k])
        ELSE L("Skipped (read error)", relevant[k])]

WrittenLogs(files) == [k \in 1 .. Len(files) |-> L("Written", files[k])]

\* The file lists a FixResult can carry: generateFix returns the parsed reply
\* of the model as it is, so any path can appear.
FixFileLists == Prefixes(RepoFiles) \cup {<<"../outside.ts">>, <<"/etc/passwd">>}

\* What the calls made by one agent run do: listRepoFiles and
\* identifyRelevantFiles return or raise, readFile succeeds on `readable`,
\* generateFix returns `fix` or raises, writeFile raises on the
\* writeFailAt-th file (0: on none).
AgentOutcomes ==
    {[listOk |-> a, identOk |-> b, relevant |-> r, readable |-> rd, genOk |-> c,
      fix |-> [commitMessage |-> "fix: guard", patchSummary |-> "Adds a guard.",
               files |-> f],
      writeFailAt |-> w] :
        a \in BOOLEAN, b \in BOOLEAN, r \in Prefixes(RepoFiles),
        rd \in SUBSET Range(RepoFiles), c \in BOOLEAN,
        f \in FixFileLists, w \in 0 .. NumFiles}

\* runCodingAgent(issue, ctx), as a completion: returned value or raised error.
runCodingAgent(o) ==
    LET l1 == <<L("Step 1: Listing repository files...", "")>>
        l2 == l1 \o <<L("Found files", ToString(NumFiles)),
                      L("Step 2: Identifying relevant files with AI...", "")>>
        l3 == l2 \o <<L("Relevant files", ToString(o.relevant)),
                      L("Step 3: Reading relevant files...", "")>>
        l4 == l3 \o ReadLogs(o.relevant, o.readable)
        l5 == Append(l4, L("Step 4: Generating fix with AI...", ""))
        l6 == l5 \o <<L("Fix generated. Files to change", ToString(Len(o.fix.files))),
                      L("Commit", o.fix.commitMessage),
                      L("Step 5: Writing fixed files to sandbox...", "")>>
        w  == o.writeFailAt
    IN  IF ~o.listOk THEN AgentCatch(l1, "listRepoFiles failed")
        ELSE IF ~o.identOk THEN AgentCatch(l2, "identifyRelevantFiles failed")
        ELSE IF NothingRead(o)
        THEN AgentCatch(l4, "Could not read any relevant files from the sandbox.")
        ELSE IF ~o.genOk THEN AgentCatch(l5, "generateFix failed")
        ELSE IF w \in 1 .. Len(o.fix.files)
        THEN AgentCatch(l6 \o WrittenLogs(SubSeq(o.fix.files, 1, w - 1)),
                        "writeFile failed")
        ELSE [kind |-> "return", msg |-> "",
              value |-> [success |-> TRUE,
                         patch |-> <<o.fix.patchSummary, o.fix.files>>,
                         commitMessage |-> o.fix.commitMessage,
                         filesChanged |-> o.fix.files,
                         logs |-> l6 \o WrittenLogs(o.fix.files),
                         error |-> Undef]]

\* Lines 62-68: whether generateFix is called, and the paths of the
\* fileContents it is called with.
GenerateFixCall(o) ==
    IF o.listOk /\ o.identOk /\ ~NothingRead(o)
    THEN [called |-> TRUE, files |-> fileContents(o)]
    ELSE [called |-> FALSE, files |-> {}]

\* Whether some call of the agent run raised (or no candidate was readable).
AgentStepFailed(o) ==
    \/ ~o.listOk
    \/ ~o.identOk
    \/ NothingRead(o)
    \/ ~o.genOk
    \/ o.writeFailAt \in 1 .. Len(o.fix.files)

\* The paths the write loop of step 5 passed to writeFile with success.
AgentWritten(o) ==
    IF ~o.listOk \/ ~o.identOk \/ NothingRead(o) \/ ~o.genOk
    THEN <<>>
    ELSE IF o.writeFailAt \in 1 .. Len(o.fix.files)
    THEN SubSeq(o.fix.files, 1, o.writeFailAt - 1)
    ELSE o.fix.files

\* Mutant: the length test is dropped.
AgentProducedFixIgnoresFiles(r) == r.success

\* Whether some call made by the agent run raised, a readFile on a single
\* candidate included (each call is made only when the earlier steps passed).
AgentCallRaised(o) ==
    \/ AgentStepFailed(o)
    \/ o.listOk /\ o.identOk /\ ~(Range(o.relevant) \subseteq o.readable)

\* Line 148: agentResult.success && agentResult.filesChanged.length > 0
AgentProducedFix(r) == r.success /\ Len(r.filesChanged) > 0

----------------------------------------------------------------------------
(* The change-request and notification collaborators.                      *)

\* What createAndSubmitFix can return.
PrResults ==
    {[prUrl |-> u[1], branchName |-> u[2], merged |-> m] :
        u \in {<<"pr/1", "fix/1">>, <<"pr/2", "fix/2">>}, m \in BOOLEAN}

\* Mutant: the merge flag is ignored.
PrStatusAlwaysOpened(prResult) == "pr_opened"

\* Line 201: the status written with the pull request.
PrStatus(prResult) == IF prResult.merged THEN "merged" ELSE "pr_opened"

\* Mutant: the change request's locator is stored as the repository's.
PrUpdateRewritesRepoUrl(prResult, patchSummary, commitMessage) ==
    [status |-> IF prResult.merged THEN "merged" ELSE "pr_opened",
     branchName |-> prResult.branchName, prUrl |-> prResult.prUrl,
     repoUrl |-> prResult.prUrl, patchSummary |-> patchSummary,
     commitMessage |-> commitMessage]

\* Lines 200-206: the fields written when createAndSubmitFix returned.
PrUpdate(prResult, patchSummary, commitMessage) ==
    [status |-> PrStatus(prResult), branchName |-> prResult.branchName,
     prUrl |-> prResult.prUrl, patchSummary |-> patchSummary,
     commitMessage |-> commitMessage]

\* The placeholder file of DEMO_MODE (lines 103-118).
DemoFiles == <<".site-surgeon/last-fix.md">>

----------------------------------------------------------------------------
(* services/issueProcessor.ts: where control goes.                         *)

\* Mutant: step 1 leaves the status as it is.
ClassifyingStatusSkipped == "received"

\* Line 56: the status written on entry of step 1.
ClassifyingStatus == "classifying"

\* Mutant: step 4 leaves the status of step 3.
FixingStatusSkipped == "sandboxing"

\* Lines 99 and 142: the status written before the fix is produced.
FixingStatus == "fixing"

\* Mutant: step 3 writes the status of step 4.
SandboxingStatusWrong == "fixing"

\* Line 87: the status written on entry of step 3.
SandboxingStatus == "sandboxing"

\* Mutant: the sandbox phase is entered whatever the decision.
AfterClassifyIgnoresDecision(decision) == "sandboxing"

\* Line 73: the branch on the decision.
AfterClassify(decision) == IF decision = "MANUAL" THEN "manual_email" ELSE "sandboxing"

\* Mutant: a notification that could not be sent fails the pipeline.
ManualNotifyStatusOnSendFailure(sent) == IF sent THEN "notified" ELSE "failed"

\* Lines 75-82: the catch of line 77 only logs; line 82 writes notified
\* whether or not the notification was sent.
ManualNotifyStatus(sent) == "notified"

\* Mutant: the return of line 83 is missing, control falls into step 3.
AfterManualNotifyFallsThrough == "sandboxing"

\* Line 83: return after the manual notification.
AfterManualNotify == "done"

\* Mutant: DEMO_MODE is not looked at, the sandbox is always created.
AfterSandboxingIgnoresDemoMode(demoMode) == "create"

\* Line 94: the branch on DEMO_MODE.
AfterSandboxing(demoMode) == IF demoMode THEN "demo" ELSE "create"

\* Mutant: no finally block, step 5 follows the try directly.
LeaveTryWithoutFinally == "github"

\* Lines 168-170: every way out of the inner try goes through the finally.
LeaveTry == "destroy"

\* Mutant: leaving the finally block ends the pipeline unless an error is
\* pending.
AfterFinallyReturns(pending) ==
    IF pending.kind = "throw" THEN "sandbox_catch" ELSE "done"

\* After the finally block: on to step 5, back to the caller, or to the catch
\* of line 172.
AfterFinally(pending) ==
    CASE pending.kind = "normal" -> "github"
      [] pending.kind = "return" -> "done"
      [] OTHER -> "sandbox_catch"

\* Mutant: the catch of line 172 appends nothing.
SandboxCatchLogsNothing(msg) == <<>>

\* Line 177: the line the catch of line 172 appends.
SandboxCatchLogs(msg) == <<L("[error] Sandbox failed", msg)>>

\* Mutant: an escalation clears the decision.
EscalationDecisionCleared == Undef

\* Lines 162 and 178: the decision written when the sandbox phase escalates.
EscalationDecision == "MANUAL"

\* Mutant: an escalation is reported as a failure.
EscalationStatusFailed == "failed"

\* Lines 164 and 180: the status written when the sandbox phase escalates.
EscalationStatus == "notified"

\* Mutant: a failed change request is attempted again.
AfterGithubFailureRetries == "github"

\* Line 197: return after a failed change request.
AfterGithubFailure == "done"

\* Mutant: a summary that could not be sent marks the issue failed.
SummaryEmailFailureFails(s, i, sent) ==
    IF sent THEN s ELSE update(s, i, [status |-> "failed"])

\* Lines 212-219: the summary email reads the record (line 213) and its catch
\* only logs: the store after the attempt is the store before it.
SummaryEmailStore(s, i, sent) == s

\* Mutant: processIssue awaits the pipeline before it returns.
AwaitsPipelineTrue == TRUE

\* Line 39: the promise of runPipeline(issue) is not awaited.
AwaitsPipeline == FALSE

\* Line 47: where the pipeline stands when processIssue returns.  The call of
\* line 39 runs runPipeline up to its first await (line 61), a crash before
\* it included; a continuation runs only after the return.
AckReady(p) ==
    IF AwaitsPipeline THEN p \in {"done", "handled"} ELSE p \in {"classify", "crashed"}

\* The positions of runPipeline whose next statement stands outside every try
\* block (lines 53-57, 69-74, 82, 87-123, 173-181, 186, 192-196, 200-211,
\* 216, 221): an exception raised there rejects the promise of line 39.
CrashPoints ==
    {"start", "classify", "manual_email", "sandboxing", "demo", "sandbox_catch",
     "github", "summary_email"}

\* Mutant: the handler of line 39 only logs.
CrashHandlerLogsOnly == [k \in {} |-> Undef]

\* Line 44: what the handler of the rejected pipeline promise writes.
CrashHandlerPartial == [status |-> "failed"]

----------------------------------------------------------------------------
(* The answers of the collaborators: all of them, or, with env.narrow, a    *)
(* few of each kind (two pipelines side by side).                           *)

BodiesFor(e) == IF e.narrow THEN {b \in Bodies : b.repoUrl # Undef} ELSE Bodies

ClassifyOutcomesFor(e) ==
    IF e.narrow
    THEN {c \in ClassifyOutcomes : ~c.ok \/ c.content \in {<<"AUTOMATED">>, <<"MANUAL">>}}
    ELSE ClassifyOutcomes

CloneOutcomesFor(e) == IF e.narrow THEN {"ok", "exit"} ELSE RunOutcomes

ListingsFor(e) == IF e.narrow THEN {{}} ELSE Listings

InstallOutcomesFor(e) == IF e.narrow THEN {"ok"} ELSE RunOutcomes

\* An agent run that fixes the first file, one whose listing fails, and one
\* whose fix names no file.
NarrowAgentOutcomes ==
    LET fixed == [listOk |-> TRUE, identOk |-> TRUE, relevant |-> SubSeq(RepoFiles, 1, 1),
                  readable |-> {RepoFiles[1]}, genOk |-> TRUE,
                  fix |-> [commitMessage |-> "fix: guard",
                           patchSummary |-> "Adds a guard.",
                           files |-> SubSeq(RepoFiles, 1, 1)],
                  writeFailAt |-> 0]
    IN  {fixed, [fixed EXCEPT !.listOk = FALSE], [fixed EXCEPT !.fix.files = <<>>]}

AgentOutcomesFor(e) == IF e.narrow THEN NarrowAgentOutcomes ELSE AgentOutcomes

KillOutcomesFor(e) == IF e.narrow THEN {"ok", "raise_alive"} ELSE KillOutcomes

PrResultsFor(e) == IF e.narrow THEN {r \in PrResults : r.prUrl = "pr/1"} ELSE PrResults

----------------------------------------------------------------------------
Init ==
    /\ env \in [demoMode : BOOLEAN, e2bKey : BOOLEAN, narrow : {FALSE}]
    /\ store = <<>>
    /\ pc = [i \in Issues |-> IF i = "i1" THEN "intake" ELSE "absent"]
    /\ loc = [i \in Issues |-> InitLoc]
    /\ alive = {}
    /\ created = 0
    /\ hist = [i \in Issues |-> InitHist]

\* processIssue(body): save the issue, start the detached pipeline, return.
ProcessIssue(i) ==
    /\ pc[i] = "intake"
    /\ \E body \in BodiesFor(env) :
        /\ store' = issueStoreSave(store, NewIssue(i, body))
        /\ hist' = [hist EXCEPT ![i] =
                      [Responded(env, AtStatus(@, loc[i], "received"), "body", body) EXCEPT
                          !.issueObj = NewIssue(i, body)]]
    /\ pc' = [pc EXCEPT ![i] = "start"]
    /\ UNCHANGED <<env, loc, alive, created>>

\* Line 47: processIssue returns the issue object it built.
Acknowledge(i) ==
    /\ ~hist[i].ack.returned
    /\ AckReady(pc[i])
    /\ hist' = [hist EXCEPT ![i].ack =
                  [returned |-> TRUE, value |-> hist[i].issueObj,
                   settled |-> CallsSettled(hist[i])]]
    /\ UNCHANGED <<env, store, pc, loc, alive, created>>

\* Line 56.
StartClassifying(i) ==
    /\ pc[i] = "start"
    /\ store' = update(store, i, [status |-> ClassifyingStatus])
    /\ hist' = [hist EXCEPT ![i] = AtStatus(@, loc[i], ClassifyingStatus)]
    /\ pc' = [pc EXCEPT ![i] = "classify"]
    /\ UNCHANGED <<env, loc, alive, created>>

\* Lines 59-73: the classification call completes (a raised error leaves the
\* default of line 59); the decision is stored.
Classify(i) ==
    /\ pc[i] = "classify"
    /\ hist[i].ack.returned \/ AwaitsPipeline
    /\ \E out \in ClassifyOutcomesFor(env) :
        LET r == classifyIssue(out)
            c == IF r.kind = "return" THEN r.value ELSE loc[i].classification
        IN
        /\ loc' = [loc EXCEPT ![i].classification = c]
        /\ store' = update(store, i, [aiDecision |-> c.decision, aiReason |-> c.reason])
        /\ pc' = [pc EXCEPT ![i] = AfterClassify(c.decision)]
        /\ hist' = [hist EXCEPT ![i] =
                      [Absorbed(~out.ok, Responded(env, CalledAt(@, "classify", store[i]), "classify", out), "classification",
                                store[i].sandboxLogs) EXCEPT
                          !.classifyFailed = ~out.ok,
                          !.classifyOut = out,
                          !.classified = r]]
    /\ UNCHANGED <<env, alive, created>>

\* Lines 74-83: the manual-review email resolves or rejects; status notified.
ManualNotify(i) ==
    /\ pc[i] = "manual_email"
    /\ \E sent \in BOOLEAN :
        /\ store' = update(store, i, [status |-> ManualNotifyStatus(sent)])
        /\ hist' = [hist EXCEPT ![i] =
                      AtStatus(Absorbed(~sent, Responded(env, Called(@, "manualEmail"), "email", sent), "notification",
                                        store[i].sandboxLogs),
                               loc[i], ManualNotifyStatus(sent))]
    /\ pc' = [pc EXCEPT ![i] = AfterManualNotify]
    /\ UNCHANGED <<env, loc, alive, created>>

\* Lines 87-94.
StartSandboxing(i) ==
    /\ pc[i] = "sandboxing"
    /\ store' = update(store, i, [status |-> SandboxingStatus])
    /\ hist' = [hist EXCEPT ![i] = AtStatus(@, loc[i], SandboxingStatus)]
    /\ pc' = [pc EXCEPT ![i] = AfterSandboxing(env.demoMode)]
    /\ UNCHANGED <<env, loc, alive, created>>

\* Lines 95-123: DEMO_MODE, no sandbox and no agent.
DemoFix(i) ==
    /\ pc[i] = "demo"
    /\ store' =
         appendLogs(
            update(appendLogs(store, i, <<L("[demo] Sandbox skipped in DEMO_MODE", "")>>),
                   i, [status |-> FixingStatus]),
            i, <<L("[demo] Placeholder fix generated", "")>>)
    /\ loc' = [loc EXCEPT ![i].filesForGithub = DemoFiles,
                          ![i].commitMessage = "fix(demo): AI attempted fix",
                          ![i].patchSummary =
                              "Demo mode: placeholder commit to show end-to-end pipeline."]
    /\ hist' = [hist EXCEPT ![i] = AtStatus(@, loc[i], FixingStatus)]
    /\ pc' = [pc EXCEPT ![i] = "github"]
    /\ UNCHANGED <<env, alive, created>>

\* Lines 133-135 and createSandbox: the API key is missing, Sandbox.create
\* rejects, repoName raises after the sandbox was started, or a context is
\* returned and its id stored.
CreateSandbox(i) ==
    /\ pc[i] = "create"
    /\ \/ /\ ~env.e2bKey
          /\ loc' = [loc EXCEPT ![i].pending =
                        [kind |-> "throw", msg |-> "E2B_API_KEY is not set in environment"]]
          /\ pc' = [pc EXCEPT ![i] = "sandbox_catch"]
          /\ hist' = [hist EXCEPT ![i] =
                        Absorbed(TRUE, Responded(env, CalledAt(@, "createSandbox", store[i]), "create", "no key"), "sandbox",
                                 store[i].sandboxLogs)]
          /\ UNCHANGED <<store, alive, created>>
       \/ /\ env.e2bKey
          /\ loc' = [loc EXCEPT ![i].pending =
                        [kind |-> "throw", msg |-> "Sandbox.create rejected"]]
          /\ pc' = [pc EXCEPT ![i] = "sandbox_catch"]
          /\ hist' = [hist EXCEPT ![i] =
                        Absorbed(TRUE, Responded(env, CalledAt(@, "createSandbox", store[i]), "create", "rejected"), "sandbox",
                                 store[i].sandboxLogs)]
          /\ UNCHANGED <<store, alive, created>>
       \/ /\ env.e2bKey
          /\ repoNameRaises(store[i].repoUrl)
          /\ created' = created + 1
          /\ alive' = alive \cup {created + 1}
          /\ loc' = [loc EXCEPT ![i].pending =
                        [kind |-> "throw",
                         msg |-> "TypeError: Cannot read properties of undefined"]]
          /\ pc' = [pc EXCEPT ![i] = "sandbox_catch"]
          /\ hist' = [hist EXCEPT ![i] =
                        [Absorbed(TRUE, Responded(env, CalledAt(@, "createSandbox", store[i]), "create", "repoName raised"), "sandbox",
                                  store[i].sandboxLogs) EXCEPT
                            !.allocated = @ \cup {created + 1}]]
          /\ UNCHANGED store
       \/ /\ env.e2bKey
          /\ ~repoNameRaises(store[i].repoUrl)
          /\ created' = created + 1
          /\ alive' = alive \cup {created + 1}
          /\ loc' = [loc EXCEPT ![i].ctx =
                        [sandboxId |-> created + 1,
                         logs |-> <<L("E2B sandbox created", ToString(created + 1))>>]]
          /\ store' = update(store, i, [sandboxId |-> ToString(created + 1)])
          /\ pc' = [pc EXCEPT ![i] = "clone"]
          /\ hist' = [hist EXCEPT ![i] =
                        [Responded(env, CalledAt(@, "createSandbox", store[i]), "create", "created") EXCEPT
                            !.allocated = @ \cup {created + 1}]]
    /\ UNCHANGED env

\* Line 138 and cloneRepo: git clone succeeds, exits non-zero, or the command
\* call itself rejects.
CloneRepo(i) ==
    /\ pc[i] = "clone"
    /\ \E out \in CloneOutcomesFor(env) :
        LET logs == Append(loc[i].ctx.logs, L("Cloning", toCloneUrl(store[i].repoUrl)))
                    \o runLogs("git clone --depth 1", out)
        IN  IF out = "ok"
            THEN /\ loc' = [loc EXCEPT ![i].ctx.logs = logs]
                 /\ pc' = [pc EXCEPT ![i] = "install"]
                 /\ hist' = [hist EXCEPT ![i] = Responded(env, CalledAt(@, "cloneRepo", store[i]), "clone", out)]
            ELSE /\ loc' = [loc EXCEPT ![i].ctx.logs = logs,
                                       ![i].pending =
                                          [kind |-> "throw",
                                           msg |-> runMsg("git clone --depth 1", out)]]
                 /\ pc' = [pc EXCEPT ![i] = LeaveTry]
                 /\ hist' = [hist EXCEPT ![i] =
                               [Absorbed(TRUE, Responded(env, CalledAt(@, "cloneRepo", store[i]), "clone", out), "sandbox",
                                         store[i].sandboxLogs) EXCEPT
                                   !.cloneFailed = TRUE,
                                   !.cloneMsg = runMsg("git clone --depth 1", out)]]
    /\ UNCHANGED <<env, store, alive, created>>

\* Lines 139-142 and installDependencies: the `ls` call rejects (nothing
\* catches it), or a command is chosen and run; then the sandbox logs are
\* appended and status fixing is written.
InstallDependencies(i) ==
    /\ pc[i] = "install"
    /\ \/ /\ loc' = [loc EXCEPT ![i].pending =
                        [kind |-> "throw", msg |-> runMsg("ls", "raise")]]
          /\ pc' = [pc EXCEPT ![i] = LeaveTry]
          /\ hist' = [hist EXCEPT ![i] =
                        Responded(env, Absorbed(TRUE, @, "sandbox", store[i].sandboxLogs),
                                  "install", "ls raised")]
          /\ UNCHANGED store
       \/ \E files \in ListingsFor(env), out \in InstallOutcomesFor(env) :
            LET logs == loc[i].ctx.logs \o installLogs(files, out) IN
            /\ loc' = [loc EXCEPT ![i].ctx.logs = logs]
            /\ store' = update(appendLogs(store, i, logs), i, [status |-> FixingStatus])
            /\ pc' = [pc EXCEPT ![i] = "agent"]
            /\ hist' = [hist EXCEPT ![i] =
                          Responded(env,
                                    AtStatus(Absorbed(installCmd(files) # Undef /\ out # "ok",
                                                      @, "install", store[i].sandboxLogs),
                                             loc[i], FixingStatus),
                                    "install", <<files, out>>)]
    /\ UNCHANGED <<env, alive, created>>

\* Lines 145-148 and 160-162: the agent run completes; its logs are appended;
\* without a fix the decision is overwritten with MANUAL.
RunAgent(i) ==
    /\ pc[i] = "agent"
    /\ \E o \in AgentOutcomesFor(env) :
        LET c == runCodingAgent(o)
            h == [Absorbed(AgentStepFailed(o), Responded(env, CalledAt(hist[i], "agent", store[i]), "agent", o), "agent",
                           store[i].sandboxLogs) EXCEPT
                     !.agentFailedStep = AgentStepFailed(o),
                     !.agentCallRaised = AgentCallRaised(o),
                     !.written = {[path |-> q, target |-> writeFileTarget(q)] :
                                    q \in Range(AgentWritten(o))},
                     !.agentRaised = (c.kind = "throw"),
                     !.readStep =
                        IF o.listOk /\ o.identOk
                        THEN [reached |-> TRUE, candidates |-> o.relevant,
                              readOk |-> o.readable \cap Range(o.relevant),
                              generateFix |-> GenerateFixCall(o)]
                        ELSE NoReadStep]
        IN  IF c.kind = "throw"
            THEN /\ loc' = [loc EXCEPT ![i].pending = [kind |-> "throw", msg |-> c.msg]]
                 /\ pc' = [pc EXCEPT ![i] = LeaveTry]
                 /\ hist' = [hist EXCEPT ![i] = h]
                 /\ UNCHANGED store
            ELSE /\ loc' = [loc EXCEPT ![i].agentResult = c.value]
                 /\ hist' = [hist EXCEPT ![i] = h]
                 /\ IF AgentProducedFix(c.value)
                    THEN /\ store' = appendLogs(store, i, c.value.logs)
                         /\ pc' = [pc EXCEPT ![i] = "readback"]
                    ELSE /\ store' = update(appendLogs(store, i, c.value.logs), i,
                                        [aiDecision |-> EscalationDecision,
                                         aiReason |-> L("Agent failed", c.value.error)])
                         /\ pc' = [pc EXCEPT ![i] = "agent_email"]
    /\ UNCHANGED <<env, alive, created>>

\* Lines 149-159: the changed files are read back; unreadable ones are skipped.
ReadBack(i) ==
    /\ pc[i] = "readback"
    /\ \E readable \in SUBSET Range(loc[i].agentResult.filesChanged) :
        /\ hist' = [hist EXCEPT ![i] = Responded(env, @, "readback", readable)]
        /\ loc' = [loc EXCEPT
                  ![i].filesForGithub =
                      SelectSeq(loc[i].agentResult.filesChanged,
                                LAMBDA f : f \in readable),
                  ![i].commitMessage = loc[i].agentResult.commitMessage,
                  ![i].patchSummary = loc[i].agentResult.patch[1],
                  ![i].pending = [kind |-> "normal", msg |-> ""]]
    /\ pc' = [pc EXCEPT ![i] = LeaveTry]
    /\ UNCHANGED <<env, store, alive, created>>

\* Lines 163-165: the escalation email resolves or rejects; status notified;
\* return, which leaves the try through the finally block.
AgentEscalate(i) ==
    /\ pc[i] = "agent_email"
    /\ \E sent \in BOOLEAN :
        /\ store' = update(store, i, [status |-> EscalationStatus])
        /\ hist' = [hist EXCEPT ![i] =
                      AtStatus(Absorbed(~sent, Responded(env, Called(@, "manualEmail"), "email", sent), "notification",
                                        store[i].sandboxLogs),
                               loc[i], EscalationStatus)]
    /\ loc' = [loc EXCEPT ![i].pending = [kind |-> "return", msg |-> ""]]
    /\ pc' = [pc EXCEPT ![i] = LeaveTry]
    /\ UNCHANGED <<env, alive, created>>

\* Lines 168-170 and destroySandbox: kill resolves or rejects; never raises.
DestroySandbox(i) ==
    /\ pc[i] = "destroy"
    /\ \E out \in KillOutcomesFor(env) :
        /\ alive' = destroySandbox(alive, loc[i].ctx, out)
        /\ loc' = [loc EXCEPT ![i].ctx.logs = destroyLogs(loc[i].ctx, out)]
        /\ hist' = [hist EXCEPT ![i] =
                      [Responded(env, Called(@, "destroy"), "kill", out) EXCEPT
                          !.destroyDone = TRUE,
                          !.killFailed = (out # "ok")]]
        /\ pc' = [pc EXCEPT ![i] =
                    IF destroyKind(out) = "throw" THEN "sandbox_catch"
                    ELSE AfterFinally(loc[i].pending)]
    /\ UNCHANGED <<env, store, created>>

\* Lines 172-181: the catch of the sandbox phase.
SandboxCatch(i) ==
    /\ pc[i] = "sandbox_catch"
    /\ \E sent \in BOOLEAN :
        /\ store' =
             update(
                update(appendLogs(store, i, SandboxCatchLogs(loc[i].pending.msg)), i,
                       [aiDecision |-> EscalationDecision,
                        aiReason |-> L("Sandbox unavailable. Escalated for manual review.", "")]),
                i, [status |-> EscalationStatus])
        /\ hist' = [hist EXCEPT ![i] =
                      AtStatus(Absorbed(~sent, Responded(env, Called(@, "manualEmail"), "email", sent), "notification",
                                        store'[i].sandboxLogs),
                               loc[i], EscalationStatus)]
    /\ pc' = [pc EXCEPT ![i] = "done"]
    /\ UNCHANGED <<env, loc, alive, created>>

\* Lines 188-206: the change request raises (status failed) or returns.
CreateAndSubmitFix(i) ==
    /\ pc[i] = "github"
    /\ \/ /\ store' = update(store, i, [status |-> "failed"])
          /\ hist' = [hist EXCEPT ![i] =
                        [AtStatus(Absorbed(TRUE, Responded(env, CalledAt(@, "github", store[i]), "github", "raised"), "changeRequest",
                                           store[i].sandboxLogs),
                                  loc[i], "failed") EXCEPT
                            !.githubFiles = loc[i].filesForGithub,
                            !.ghOutcome = "raised"]]
          /\ pc' = [pc EXCEPT ![i] = AfterGithubFailure]
          /\ UNCHANGED loc
       \/ \E pr \in PrResultsFor(env) :
          /\ store' = update(store, i,
                             PrUpdate(pr, loc[i].patchSummary, loc[i].commitMessage))
          /\ hist' = [hist EXCEPT ![i] =
                        [AtStatus(Responded(env, CalledAt(@, "github", store[i]), "github", pr), loc[i], PrStatus(pr)) EXCEPT
                            !.githubFiles = loc[i].filesForGithub,
                            !.ghOutcome = "returned",
                            !.prReturned = pr]]
          /\ loc' = [loc EXCEPT ![i].prResult = pr]
          /\ pc' = [pc EXCEPT ![i] = "summary_email"]
    /\ UNCHANGED <<env, alive, created>>

\* Lines 211-221: the summary email resolves or rejects; the pipeline ends.
SummaryEmail(i) ==
    /\ pc[i] = "summary_email"
    /\ \E sent \in BOOLEAN :
        /\ store' = SummaryEmailStore(store, i, sent)
        /\ hist' = [hist EXCEPT ![i] =
                      Absorbed(~sent, Responded(env, Called(@, "fixEmail"), "email", sent), "notification",
                               store[i].sandboxLogs)]
    /\ pc' = [pc EXCEPT ![i] = "done"]
    /\ UNCHANGED <<env, loc, alive, created>>

\* A statement outside every try block raises: runPipeline rejects.
Crash(i) ==
    /\ pc[i] \in CrashPoints
    /\ hist' = [hist EXCEPT ![i].crashed = TRUE, ![i].crashStatus = store[i].status]
    /\ pc' = [pc EXCEPT ![i] = "crashed"]
    /\ UNCHANGED <<env, store, loc, alive, created>>

\* Lines 39-45: the handler attached to the promise of runPipeline.
CrashHandler(i) ==
    /\ pc[i] = "crashed"
    /\ hist[i].ack.returned \/ AwaitsPipeline
    /\ store' = update(store, i, CrashHandlerPartial)
    /\ pc' = [pc EXCEPT ![i] = "handled"]
    /\ UNCHANGED <<env, loc, alive, created, hist>>

\* One step of the detached task of issue i: the continuation after an await.
PipelineStep(i) ==
        \/ StartClassifying(i)
        \/ Classify(i)
        \/ ManualNotify(i)
        \/ StartSandboxing(i)
        \/ DemoFix(i)
        \/ CreateSandbox(i)
        \/ CloneRepo(i)
        \/ InstallDependencies(i)
        \/ RunAgent(i)
        \/ ReadBack(i)
        \/ AgentEscalate(i)
        \/ DestroySandbox(i)
        \/ SandboxCatch(i)
        \/ CreateAndSubmitFix(i)
        \/ SummaryEmail(i)

Next == \E i \in Issues : ProcessIssue(i) \/ Acknowledge(i) \/ PipelineStep(i)

Spec == Init /\ [][Next]_vars

\* processIssue runs to its return, every awaited call settles and the event
\* loop then runs the continuation: a step that stays enabled is eventually
\* taken.
SpecLive ==
    /\ Init
    /\ [][Next]_vars
    /\ \A i \in Issues : WF_vars(Acknowledge(i)) /\ WF_vars(PipelineStep(i))

\* The pipeline when statements outside the try blocks can raise.
NextCrash ==
    \/ Next
    \/ \E i \in Issues : Crash(i)
    \/ \E i \in Issues : CrashHandler(i)

SpecCrash == Init /\ [][NextCrash]_vars

\* Two reports at once: both pipelines run, their steps interleaved in any
\* order, against a working sandbox service.
InitConc ==
    /\ env \in [demoMode : BOOLEAN, e2bKey : {TRUE}, narrow : {TRUE}]
    /\ store = <<>>
    /\ pc = [i \in Issues |-> "intake"]
    /\ loc = [i \in Issues |-> InitLoc]
    /\ alive = {}
    /\ created = 0
    /\ hist = [i \in Issues |-> InitHist]

SpecConc == InitConc /\ [][Next]_vars

----------------------------------------------------------------------------
(* destroySandbox on its own: called twice on one context.                 *)

\* The contexts a caller can hold: any sandbox id, the sandbox alive or
\* already gone (it expires after its timeout), some lines logged.
Contexts ==
    UNION {{[sandboxId |-> n, logs |-> l] :
                l \in {<<L("E2B sandbox created", ToString(n))>>,
                       <<L("E2B sandbox created", ToString(n)),
                         L("Cloning", "https://github.com/o/r.git")>>}} :
           n \in 1 .. MaxSandboxes}

InitDestroy ==
    /\ env = [demoMode |-> FALSE, e2bKey |-> TRUE, narrow |-> FALSE]
    /\ store = <<>>
    /\ pc = [i \in Issues |-> IF i = "i1" THEN "destroy_once" ELSE "absent"]
    /\ \E ctx \in Contexts :
          loc = [i \in Issues |-> IF i = "i1" THEN [InitLoc EXCEPT !.ctx = ctx] ELSE InitLoc]
    /\ alive \in SUBSET (1 .. MaxSandboxes)
    /\ created = MaxSandboxes
    /\ hist = [i \in Issues |-> InitHist]

\* One call destroySandbox(ctx), remembered in hist[i][which].
DestroyCall(i, which, after) ==
    \E out \in KillOutcomes :
        /\ alive' = destroySandbox(alive, loc[i].ctx, out)
        /\ loc' = [loc EXCEPT ![i].ctx.logs = destroyLogs(loc[i].ctx, out)]
        /\ hist' = [hist EXCEPT ![i][which] =
                      [out |-> out, kind |-> destroyKind(out), before |-> alive,
                       alive |-> alive', logs |-> loc'[i].ctx.logs]]
        /\ pc' = [pc EXCEPT ![i] = after]
        /\ UNCHANGED <<env, store, created>>

DestroyOnce(i) == pc[i] = "destroy_once" /\ DestroyCall(i, "first", "destroy_again")

DestroyAgain(i) == pc[i] = "destroy_again" /\ DestroyCall(i, "second", "destroyed_twice")

NextDestroy == \E i \in Issues : DestroyOnce(i) \/ DestroyAgain(i)

SpecDestroy == InitDestroy /\ [][NextDestroy]_vars

----------------------------------------------------------------------------
(* aiService.identifyRelevantFiles on its own.                             *)

\* A JavaScript value as JSON.parse can return it: its type and, for a string
\* or an array, its characters or elements.
Js(t, v) == [t |-> t, v |-> v]

JsUndefined == Js("undefined", <<>>)

\* An object, by its `files` member (JsUndefined: no such member).
JsObject(files) == [t |-> "object", v |-> <<>>, files |-> files]

\* The paths a reply can name.
ReplyPaths == <<"src/a.ts", "src/b.js", "app/c.py", "src/d.tsx", "src/e.jsx", "lib/f.ts">>

\* What the `files` member of a reply can be.
FilesMembers ==
    {Js("array", l) : l \in Prefixes(ReplyPaths)}
    \cup {JsUndefined, Js("null", <<>>), Js("number", <<>>),
          Js("string", <<"s", "r", "c", "/", "a", ".", "t", "s">>),
          Js("string", <<"a", ".", "t", "s">>)}

\* What JSON.parse(cleaned) can return.
ParsedReplies ==
    {JsObject(f) : f \in FilesMembers}
    \cup {Js("null", <<>>), Js("number", <<>>), Js("string", <<"o", "k">>),
          Js("array", <<"src/a.ts">>)}

\* What the chat-completion call can do: raise, or reply with a content that
\* JSON.parse rejects, or with one that parses to some value.
IdentifyOutcomes ==
    {[ok |-> FALSE, parses |-> FALSE, value |-> JsUndefined],
     [ok |-> TRUE, parses |-> FALSE, value |-> JsUndefined]}
    \cup {[ok |-> TRUE, parses |-> TRUE, value |-> v] : v \in ParsedReplies}

\* What `find` can list (listRepoFiles), in two orders.
Listing ==
    <<"src/a.ts", "README.md", "src/b.js", "app/c.py", "package.json", "src/d.tsx",
      "src/e.jsx">>

Reverse(s) == [k \in 1 .. Len(s) |-> s[Len(s) + 1 - k]]

AllFilesLists == Prefixes(Listing) \cup Prefixes(Reverse(Listing))

\* The text after the last dot of the paths of Listing.
extension(path) ==
    CASE path \in {"src/a.ts"} -> "ts"
      [] path \in {"src/b.js"} -> "js"
      [] path \in {"app/c.py"} -> "py"
      [] path \in {"src/d.tsx"} -> "tsx"
      [] path \in {"src/e.jsx"} -> "jsx"
      [] path \in {"README.md"} -> "md"
      [] path \in {"package.json"} -> "json"
      [] OTHER -> ""

\* Line 116: /\.(ts|js|tsx|jsx|py)$/.test(f)
isSourceFile(path) == extension(path) \in {"ts", "js", "tsx", "jsx", "py"}

\* x.slice(0, n) of an array or of a string.
slice(s, n) == SubSeq(s, 1, IF Len(s) < n THEN Len(s) ELSE n)

\* Line 116: the fallback, the first three source files of the listing.
identifyFallback(allFiles) == Js("array", slice(SelectSeq(allFiles, isSourceFile), 3))

\* parsed.files: a TypeError on null, undefined on a value without the member.
filesMember(parsed) ==
    IF parsed.t = "null" THEN [kind |-> "throw", value |-> JsUndefined]
    ELSE IF parsed.t = "object" THEN [kind |-> "return", value |-> parsed.files]
    ELSE [kind |-> "return", value |-> JsUndefined]

\* identifyRelevantFiles(issueText, allFiles), lines 82-117, as a completion.
\* Arrays and strings both have a slice method; on any other value the call
\* is a TypeError, caught at line 113 like a rejected JSON.parse.
identifyRelevantFiles(out, allFiles) ==
    IF ~out.ok THEN [kind |-> "throw", value |-> JsUndefined]
    ELSE IF ~out.parses THEN [kind |-> "return", value |-> identifyFallback(allFiles)]
    ELSE LET f == filesMember(out.value) IN
         IF f.kind = "throw" \/ f.value.t \notin {"array", "string"}
         THEN [kind |-> "return", value |-> identifyFallback(allFiles)]
         ELSE [kind |-> "return", value |-> Js(f.value.t, slice(f.value.v, 5))]

InitIdentify ==
    /\ env = [demoMode |-> FALSE, e2bKey |-> TRUE, narrow |-> FALSE]
    /\ store = <<>>
    /\ pc = [i \in Issues |-> IF i = "i1" THEN "identify" ELSE "absent"]
    /\ \E out \in IdentifyOutcomes, allFiles \in AllFilesLists :
          loc = [i \in Issues |->
                    IF i = "i1" THEN [InitLoc EXCEPT !.input = <<out, allFiles>>]
                    ELSE InitLoc]
    /\ alive = {}
    /\ created = 0
    /\ hist = [i \in Issues |-> InitHist]

\* One call identifyRelevantFiles(issueText, allFiles).
Identify(i) ==
    /\ pc[i] = "identify"
    /\ hist' = [hist EXCEPT ![i].output =
                   identifyRelevantFiles(loc[i].input[1], loc[i].input[2])]
    /\ pc' = [pc EXCEPT ![i] = "identified"]
    /\ UNCHANGED <<env, store, loc, alive, created>>

NextIdentify == \E i \in Issues : Identify(i)

SpecIdentify == InitIdentify /\ [][NextIdentify]_vars

----------------------------------------------------------------------------
(* aiService.generateFix on its own: the reply is a text, a sequence of     *)
(* characters "{", "}", "q" (a double quote), "b" (a backslash), "n" (a     *)
(* line break), "f" (a ``` fence) and "a" (any other character).            *)

Chars == {"{", "}", "q", "b", "n", "f", "a"}

Texts(n) == UNION {[1 .. k -> Chars] : k \in 0 .. n}

\* The structured objects a reply can carry (the last one: none).
Objects ==
    {<<"{", "a", "}">>, <<"{", "q", "}", "q", "}">>, <<"{", "{", "a", "}", "a", "}">>,
     <<"{", "q", "b", "q", "{", "q", "}">>, <<"{", "n", "a", "}">>,
     <<"{", "q", "f", "q", "}">>, <<>>}

\* What the chat-completion call can do: raise, or reply with prose, an
\* object and prose again.
GenerateOutcomes(n) ==
    {[ok |-> FALSE, pre |-> <<>>, obj |-> <<>>, post |-> <<>>]}
    \cup UNION {{[ok |-> TRUE, pre |-> p, obj |-> o, post |-> q] :
                    o \in Objects, q \in Texts(n - Len(p))} :
                 p \in Texts(n)}

\* String.prototype.trim: the line breaks at both ends are dropped.
RECURSIVE trimText(_)
trimText(text) ==
    IF text = <<>> THEN text
    ELSE IF Head(text) = "n" THEN trimText(Tail(text))
    ELSE IF text[Len(text)] = "n" THEN trimText(SubSeq(text, 1, Len(text) - 1))
    ELSE text

\* text.indexOf(ch, from): 0 when there is none.
indexOf(text, ch, from) ==
    IF \E k \in from .. Len(text) : text[k] = ch
    THEN CHOOSE k \in from .. Len(text) :
            text[k] = ch /\ \A j \in from .. k - 1 : text[j] # ch
    ELSE 0

NoBlock == [found |-> FALSE, text |-> <<>>]

\* Lines 188-200: the loop of extractOutermostJSON from position i.
RECURSIVE scanBlock(_, _, _, _, _, _)
scanBlock(text, start, i, depth, inString, escaped) ==
    IF i > Len(text) THEN NoBlock
    ELSE IF escaped THEN scanBlock(text, start, i + 1, depth, inString, FALSE)
    ELSE IF text[i] = "b" THEN scanBlock(text, start, i + 1, depth, inString, TRUE)
    ELSE IF text[i] = "q" THEN scanBlock(text, start, i + 1, depth, ~inString, FALSE)
    ELSE IF inString THEN scanBlock(text, start, i + 1, depth, inString, FALSE)
    ELSE IF text[i] = "{" THEN scanBlock(text, start, i + 1, depth + 1, inString, FALSE)
    ELSE IF text[i] = "}"
    THEN IF depth - 1 = 0 THEN [found |-> TRUE, text |-> SubSeq(text, start, i)]
         ELSE scanBlock(text, start, i + 1, depth - 1, inString, FALSE)
    ELSE scanBlock(text, start, i + 1, depth, inString, FALSE)

\* extractOutermostJSON(text), lines 184-202.
extractOutermostJSON(text) ==
    LET start == indexOf(text, "{", 1)
    IN  IF start = 0 THEN NoBlock
        ELSE scanBlock(text, start, start, 0, FALSE, FALSE)

\* Whether JSON.parse accepts the rest of a text: outside a string only
\* braces, line breaks and content; inside a string no line break, and a
\* backslash only before a quote, a backslash or a letter; the braces
\* balanced, and nothing but line breaks after the closing one.
RECURSIVE jsonRest(_, _, _, _)
jsonRest(text, i, depth, inString) ==
    IF i > Len(text) THEN depth = 0 /\ ~inString
    ELSE IF inString
    THEN CASE text[i] = "q" -> jsonRest(text, i + 1, depth, FALSE)
           [] text[i] = "n" -> FALSE
           [] text[i] = "b" -> /\ i < Len(text)
                               /\ text[i + 1] \in {"q", "b", "a"}
                               /\ jsonRest(text, i + 2, depth, TRUE)
           [] OTHER -> jsonRest(text, i + 1, depth, TRUE)
    ELSE CASE text[i] = "n" -> jsonRest(text, i + 1, depth, FALSE)
           [] depth = 0 -> FALSE
           [] text[i] = "q" -> jsonRest(text, i + 1, depth, TRUE)
           [] text[i] = "{" -> jsonRest(text, i + 1, depth + 1, FALSE)
           [] text[i] = "}" -> jsonRest(text, i + 1, depth - 1, FALSE)
           [] text[i] = "a" -> jsonRest(text, i + 1, depth, FALSE)
           [] OTHER -> FALSE

\* Whether JSON.parse(text) returns (an object).
jsonParses(text) ==
    LET t == trimText(text)
    IN  /\ t # <<>>
        /\ t[1] = "{"
        /\ jsonRest(t, 2, 1, FALSE)

\* The value JSON.parse returns: the text without the line breaks between
\* its parts.
RECURSIVE jsonValue(_, _)
jsonValue(text, inString) ==
    IF text = <<>> THEN <<>>
    ELSE IF inString /\ Head(text) = "b" /\ Len(text) > 1
    THEN <<text[1], text[2]>> \o jsonValue(SubSeq(text, 3, Len(text)), TRUE)
    ELSE IF Head(text) = "q" THEN <<"q">> \o jsonValue(Tail(text), ~inString)
    ELSE IF Head(text) = "n" /\ ~inString THEN jsonValue(Tail(text), FALSE)
    ELSE <<Head(text)>> \o jsonValue(Tail(text), inString)

\* Lines 219-224: every line break becomes a backslash and a letter.
RECURSIVE sanitize(_)
sanitize(text) ==
    IF text = <<>> THEN <<>>
    ELSE IF Head(text) = "n" THEN <<"b", "a">> \o sanitize(Tail(text))
    ELSE <<Head(text)>> \o sanitize(Tail(text))

\* Lines 207-208: the text between the first fence and the next one, trimmed;
\* the whole text when there are not two fences.
fenced(raw) ==
    LET a == indexOf(raw, "f", 1)
        b == IF a = 0 THEN 0 ELSE indexOf(raw, "f", a + 1)
    IN  IF b = 0 THEN raw ELSE trimText(SubSeq(raw, a + 1, b - 1))

\* generateFix, lines 183-230, as a completion.
generateFix(out) ==
    LET raw == trimText(out.pre \o out.obj \o out.post)
        cleaned == fenced(raw)
        first == extractOutermostJSON(cleaned)
        block == IF first.found THEN first ELSE extractOutermostJSON(raw)
    IN  IF ~out.ok THEN [kind |-> "throw", value |-> <<>>, msg |-> "request failed"]
        ELSE IF ~block.found
        THEN [kind |-> "throw", value |-> <<>>,
              msg |-> "Groq returned no JSON object in fix response"]
        ELSE IF jsonParses(block.text)
        THEN [kind |-> "return", value |-> jsonValue(block.text, FALSE), msg |-> ""]
        ELSE IF jsonParses(sanitize(block.text))
        THEN [kind |-> "return", value |-> jsonValue(sanitize(block.text), FALSE),
              msg |-> ""]
        ELSE [kind |-> "throw", value |-> <<>>,
              msg |-> "Groq returned invalid JSON for fix response"]

InitGenerate ==
    /\ env = [demoMode |-> FALSE, e2bKey |-> TRUE, narrow |-> FALSE]
    /\ store = <<>>
    /\ pc = [i \in Issues |-> IF i = "i1" THEN "generate" ELSE "absent"]
    /\ \E out \in GenerateOutcomes(MaxProse) :
          loc = [i \in Issues |->
                    IF i = "i1" THEN [InitLoc EXCEPT !.input = out] ELSE InitLoc]
    /\ alive = {}
    /\ created = 0
    /\ hist = [i \in Issues |-> InitHist]

\* One call generateFix(issueText, fileContents).
Generate(i) ==
    /\ pc[i] = "generate"
    /\ hist' = [hist EXCEPT ![i].output = generateFix(loc[i].input)]
    /\ pc' = [pc EXCEPT ![i] = "generated"]
    /\ UNCHANGED <<env, store, loc, alive, created>>

NextGenerate == \E i \in Issues : Generate(i)

SpecGenerate == InitGenerate /\ [][NextGenerate]_vars

----------------------------------------------------------------------------
(* sandboxManager.installDependencies on its own.                          *)

\* The file names `ls repoDir` can print.
LsNames ==
    {"package-lock.json", "yarn.lock", "pnpm-lock.yaml", "requirements.txt",
     "pyproject.toml", "dev-requirements.txt", "package-lock.json.bak", "index.js"}

\* installDependencies(ctx), lines 91-121, as a completion: the install
\* commands handed to run(), and the lines pushed to ctx.logs.
installDependencies(ls, files, out) ==
    IF ls = "raise"
    THEN [kind |-> "throw", ran |-> <<>>, logs |-> <<>>]
    ELSE [kind |-> "return",
          ran |-> IF installCmd(files) = Undef THEN <<>> ELSE <<installCmd(files)>>,
          logs |-> installLogs(files, out)]

InitInstall ==
    /\ env = [demoMode |-> FALSE, e2bKey |-> TRUE, narrow |-> FALSE]
    /\ store = <<>>
    /\ pc = [i \in Issues |-> IF i = "i1" THEN "install_alone" ELSE "absent"]
    /\ \E files \in SUBSET LsNames :
          loc = [i \in Issues |->
                    IF i = "i1" THEN [InitLoc EXCEPT !.input = files] ELSE InitLoc]
    /\ alive = {}
    /\ created = 0
    /\ hist = [i \in Issues |-> InitHist]

\* One call installDependencies(ctx): `ls` answers or rejects, the install
\* command succeeds, exits non-zero or rejects.
Install(i) ==
    /\ pc[i] = "install_alone"
    /\ \E ls \in {"ok", "raise"}, out \in RunOutcomes :
          hist' = [hist EXCEPT ![i].output =
                      [ls |-> ls, out |-> out,
                       res |-> installDependencies(ls, loc[i].input, out)]]
    /\ pc' = [pc EXCEPT ![i] = "installed"]
    /\ UNCHANGED <<env, store, loc, alive, created>>

NextInstall == \E i \in Issues : Install(i)

SpecInstall == InitInstall /\ [][NextInstall]_vars

----------------------------------------------------------------------------
(* sandboxManager.runTestsOrBuild on its own.                              *)

\* A cloned repository: whether package.json exists, the scripts it declares
\* (NotJson: it does not parse), whether `npm test` / `npm run build` pass,
\* and its Python tests (none, passing or failing).
NotJson == {"not JSON"}

Repositories ==
    [hasPkg : BOOLEAN,
     scripts : {NotJson} \cup SUBSET {"test", "build"},
     scriptPasses : BOOLEAN,
     python : {"none", "passing", "failing"}]

\* How the calls of one runTestsOrBuild run end: each commands.run resolves
\* or rejects.
TestCalls == [probe : {"ok", "raise"}, cat : {"ok", "raise"}, cmd : {"ok", "raise"}]

\* The exit code of `python -m pytest`: 0 when the tests pass, 1 when one
\* fails, 5 when none is collected.
pytestExit(repo) ==
    CASE repo.python = "passing" -> 0
      [] repo.python = "failing" -> 1
      [] OTHER -> 5

\* Lines 187-195: the scripts read from package.json ({} when it does not
\* parse or declares none) and the command chosen.
testCmd(repo) ==
    LET scripts == IF repo.scripts = NotJson THEN {} ELSE repo.scripts
    IN  IF "test" \in scripts THEN "npm test -- --passWithNoTests"
        ELSE IF "build" \in scripts THEN "npm run build"
        ELSE Undef

\* runTestsOrBuild(ctx), lines 162-214, as a completion.
runTestsOrBuild(repo, calls) ==
    IF calls.probe = "raise" THEN [kind |-> "throw", success |-> FALSE, ran |-> Undef]
    ELSE IF ~repo.hasPkg
    THEN [kind |-> "return",
          success |-> calls.cmd = "ok" /\ pytestExit(repo) = 0,
          ran |-> "python -m pytest --tb=short -q"]
    ELSE IF calls.cat = "raise" THEN [kind |-> "throw", success |-> FALSE, ran |-> Undef]
    ELSE IF testCmd(repo) = Undef
    THEN [kind |-> "return", success |-> TRUE, ran |-> Undef]
    ELSE [kind |-> "return",
          success |-> calls.cmd = "ok" /\ repo.scriptPasses,
          ran |-> testCmd(repo)]

InitTests ==
    /\ env = [demoMode |-> FALSE, e2bKey |-> TRUE, narrow |-> FALSE]
    /\ store = <<>>
    /\ pc = [i \in Issues |-> IF i = "i1" THEN "test" ELSE "absent"]
    /\ \E repo \in Repositories :
          loc = [i \in Issues |->
                    IF i = "i1" THEN [InitLoc EXCEPT !.input = repo] ELSE InitLoc]
    /\ alive = {}
    /\ created = 0
    /\ hist = [i \in Issues |-> InitHist]

\* One call runTestsOrBuild(ctx).
RunTests(i) ==
    /\ pc[i] = "test"
    /\ \E calls \in TestCalls :
          hist' = [hist EXCEPT ![i].output =
                      [calls |-> calls, res |-> runTestsOrBuild(loc[i].input, calls)]]
    /\ pc' = [pc EXCEPT ![i] = "tested"]
    /\ UNCHANGED <<env, store, loc, alive, created>>

NextTests == \E i \in Issues : RunTests(i)

SpecTests == InitTests /\ [][NextTests]_vars

----------------------------------------------------------------------------
(* Properties.                                                             *)

StatusOf(s, i) == IF i \in DOMAIN s THEN s[i].status ELSE "absent"

Phases == {"received", "classifying", "sandboxing", "fixing", "pr_opened"}

\* The pipeline is past the sandbox phase (past the finally of line 168, or
\* past the catch of line 172), or has ended.
PastFixing(i) == pc[i] \in {"github", "summary_email", "done"}

\* C1: when the classification call fails, the gate returns MANUAL with
\* confidence 0 and the issue goes to notified, never to sandboxing or failed.
C1_FailedClassificationIsManual ==
    \A i \in DOMAIN store :
        hist[i].classifyFailed =>
            /\ loc[i].classification.decision = "MANUAL"
            /\ loc[i].classification.confidence = 0
            /\ store[i].status \in {"classifying", "notified"}
            /\ (pc[i] = "done" => store[i].status = "notified")

\* The status graph as C2 states it.
C2_ClaimedEdges ==
    {<<"absent", "received">>, <<"received", "classifying">>,
     <<"classifying", "sandboxing">>, <<"classifying", "notified">>,
     <<"sandboxing", "fixing">>, <<"sandboxing", "notified">>,
     <<"fixing", "pr_opened">>, <<"fixing", "notified">>,
     <<"pr_opened", "merged">>} \cup {<<p, "failed">> : p \in Phases}

\* The status graph of the code: merged is written directly from fixing.
C2_CodeEdges ==
    (C2_ClaimedEdges \ {<<"pr_opened", "merged">>}) \cup {<<"fixing", "merged">>}

\* C2 as claimed: every change of status is an edge of the claimed graph, and
\* merged is entered only from pr_opened.
C2_StatusFollowsClaimedGraph ==
    [][\A i \in Issues :
          StatusOf(store', i) # StatusOf(store, i) =>
              <<StatusOf(store, i), StatusOf(store', i)>> \in C2_ClaimedEdges]_vars

\* C2 amended: every change of status is an edge of received->classifying,
\* classifying->{sandboxing, notified}, sandboxing->{fixing, notified},
\* fixing->{pr_opened, merged, notified} or phase->failed; merged is entered
\* only from fixing.
C2_StatusFollowsCodeGraph ==
    [][\A i \in Issues :
          StatusOf(store', i) # StatusOf(store, i) =>
              <<StatusOf(store, i), StatusOf(store', i)>> \in C2_CodeEdges]_vars

C2_Witness == \E i \in DOMAIN store : store[i].status = "merged"

\* C3: once the status is merged, pr_opened, notified or failed, no later
\* step of the pipeline changes it.
C3_TerminalStatusIsFinal ==
    [][\A i \in Issues :
          StatusOf(store, i) \in Terminal =>
              StatusOf(store', i) = StatusOf(store, i)]_vars

\* A pipeline that wrote notified, then ran the finally block, and ended.
C3_Witness ==
    \E i \in DOMAIN store :
        /\ store[i].status = "notified"
        /\ hist[i].commit = "pending"
        /\ hist[i].destroyDone
        /\ pc[i] = "done"

\* C4: a sandbox allocated during a run no longer exists once the run's
\* fixing phase has ended, on every path, also when kill fails.
C4_NoSandboxOutlivesFixing ==
    \A i \in Issues : PastFixing(i) => hist[i].allocated \cap alive = {}

\* C5: destroySandbox has completed before the terminal status is written.
C5_DestroyedBeforeStatusCommit ==
    \A i \in Issues : hist[i].commit # "pending"

\* C6: an AgentResult with no changed files ends in notified; the change
\* request collaborator is not called and the status is never pr_opened or merged.
C6_NoChangedFilesEscalates ==
    \A i \in DOMAIN store :
        (hist[i].calls.agent > 0 /\ ~hist[i].agentRaised
            /\ Len(loc[i].agentResult.filesChanged) = 0) =>
            /\ hist[i].calls.github = 0
            /\ store[i].status \in {"fixing", "notified"}
            /\ (pc[i] = "done" => store[i].status = "notified")

\* The agent reported success with an empty file list, and the run ended.
C6_Witness ==
    \E i \in DOMAIN store :
        /\ hist[i].calls.agent > 0
        /\ loc[i].agentResult.success
        /\ Len(loc[i].agentResult.filesChanged) = 0
        /\ pc[i] = "done"

C8_CloneFailureEscalates ==
    \A i \in DOMAIN store :
        hist[i].cloneFailed =>
            /\ store[i].status \in {"sandboxing", "notified"}
            /\ hist[i].calls.github = 0
            /\ store[i].status = "notified" =>
                  /\ hist[i].commit = "destroyed"
                  /\ \E k \in 1 .. Len(store[i].sandboxLogs) :
                        store[i].sandboxLogs[k] =
                            L("[error] Sandbox failed", hist[i].cloneMsg)
            /\ pc[i] = "done" => store[i].status = "notified"

C8_Witness ==
    \E i \in DOMAIN store :
        hist[i].cloneFailed /\ pc[i] = "done" /\ store[i].status = "notified"

\* C9: when createAndSubmitFix returns, the status is merged if the merge
\* flag is true and pr_opened otherwise, and branchName and prUrl are the
\* returned values.
C9_PrResultIsStored ==
    \A i \in DOMAIN store :
        hist[i].ghOutcome = "returned" =>
            /\ store[i].status =
                  (IF hist[i].prReturned.merged THEN "merged" ELSE "pr_opened")
            /\ store[i].branchName = hist[i].prReturned.branchName
            /\ store[i].prUrl = hist[i].prReturned.prUrl

C9_Witness ==
    \E i \in DOMAIN store :
        /\ hist[i].ghOutcome = "returned"
        /\ hist[i].prReturned.merged
        /\ store[i].branchName = "fix/2"
        /\ pc[i] = "done"

\* The step lines a failed run has logged, by its error message.
C10_StepsLogged(error) ==
    LET n == CASE error = "listRepoFiles failed" -> 1
               [] error = "identifyRelevantFiles failed" -> 2
               [] error = "Could not read any relevant files from the sandbox." -> 3
               [] error = "generateFix failed" -> 4
               [] OTHER -> 5
        step == <<L("Step 1: Listing repository files...", ""),
                  L("Step 2: Identifying relevant files with AI...", ""),
                  L("Step 3: Reading relevant files...", ""),
                  L("Step 4: Generating fix with AI...", ""),
                  L("Step 5: Writing fixed files to sandbox...", "")>>
    IN  {step[k] : k \in 1 .. n}

\* What C10 says of a failed run: success false, no changed files, the error
\* message, and the logs of the steps taken, ending with the error line.
C10_FailedResult(r) ==
    /\ ~r.success
    /\ r.filesChanged = <<>>
    /\ r.error # Undef
    /\ Len(r.logs) >= 2
    /\ r.logs[1] = L("Step 1: Listing repository files...", "")
    /\ r.logs[Len(r.logs)] = L("Agent error", r.error)
    /\ C10_StepsLogged(r.error) \subseteq Range(r.logs)

\* C10 as claimed: runCodingAgent never raises, and for any failure of
\* listRepoFiles, identifyRelevantFiles, readFile, generateFix or writeFile it
\* returns success false, no changed files, the error and the logs so far.
C10_AnyCallFailureFailsAgent ==
    \A i \in DOMAIN store :
        hist[i].calls.agent > 0 =>
            /\ ~hist[i].agentRaised
            /\ hist[i].agentCallRaised => C10_FailedResult(loc[i].agentResult)

\* C10 amended: runCodingAgent never raises; for any failure of listRepoFiles,
\* identifyRelevantFiles, generateFix or writeFile, and when no candidate file
\* could be read, it returns success false, no changed files, the error
\* message and the logs up to the failure.  (A readFile that fails on one
\* candidate while another is readable is skipped.)
C10_AgentNeverRaises ==
    \A i \in DOMAIN store :
        hist[i].calls.agent > 0 =>
            /\ ~hist[i].agentRaised
            /\ hist[i].agentFailedStep => C10_FailedResult(loc[i].agentResult)

\* writeFile failed on the second file: the first one is logged as written.
C10_Witness ==
    \E i \in DOMAIN store :
        LET r == loc[i].agentResult IN
        /\ hist[i].agentFailedStep
        /\ r.error = "writeFile failed"
        /\ Len(r.logs) >= 2
        /\ r.logs[Len(r.logs) - 1] = L("Written", "1")

C12_EveryIssueTerminates ==
    \A i \in Issues : (i \in DOMAIN store) ~> (StatusOf(store, i) \in Terminal)

C12_Witness ==
    \E i \in Issues :
        /\ pc[i] = "done"
        /\ store[i].status \in Terminal
        /\ hist[i].calls.agent = 1
        /\ hist[i].calls.destroy = 1

\* The steps by which the status of issue i becomes failed.
C13_BecomesFailed(i) ==
    /\ StatusOf(store, i) # "failed"
    /\ StatusOf(store', i) = "failed"

\* C13: the status becomes failed only in the step in which the
\* change-request creation raised.
C13_FailedOnlyFromChangeRequest ==
    [][\A i \in Issues :
          C13_BecomesFailed(i) =>
              /\ pc[i] = "github"
              /\ hist'[i].ghOutcome = "raised"]_vars

\* C13, amended: the status becomes failed only when the change-request
\* creation raised or when the handler of a rejected pipeline promise runs;
\* a classification, sandbox, agent or notification failure never sets it.
C13_FailedOnlyFromChangeRequestOrCrash ==
    [][\A i \in Issues :
          C13_BecomesFailed(i) =>
              \/ pc[i] = "github" /\ hist'[i].ghOutcome = "raised"
              \/ pc[i] = "crashed" /\ hist[i].crashed]_vars

C13_Witness ==
    \E i \in Issues :
        /\ pc[i] = "handled"
        /\ store[i].status = "failed"
        /\ hist[i].ghOutcome = "none"
        /\ hist[i].cloneFailed

\* A reply that starts with neither label.
C14_Unrecognized(content) ==
    /\ ~startsWith(toUpperCase(trim(content)), "AUTOMATED")
    /\ ~startsWith(toUpperCase(trim(content)), "MANUAL")

\* C14: classifyIssue of aiClassifier returns for every outcome of the
\* completion call, with a decision AUTOMATED or MANUAL and a confidence in
\* 0..100; a reply that is neither label gives MANUAL.
C14_ClassifierIsTotal ==
    \A i \in Issues :
        hist[i].calls.classify > 0 =>
            /\ hist[i].classified.kind = "return"
            /\ hist[i].classified.value.decision \in {"AUTOMATED", "MANUAL"}
            /\ hist[i].classified.value.confidence \in 0 .. 100
            /\ (hist[i].classifyOut.ok /\ C14_Unrecognized(hist[i].classifyOut.content)
                  => hist[i].classified.value.decision = "MANUAL")

C14_Witness ==
    \E i \in Issues :
        /\ hist[i].calls.classify > 0
        /\ hist[i].classifyOut.ok
        /\ C14_Unrecognized(hist[i].classifyOut.content)
        /\ Len(hist[i].classifyOut.content) > 0
        /\ loc[i].classification.decision = "MANUAL"

\* C15: destroySandbox never raises, and after a second call on the same
\* context the live sandboxes and the context are as after the first call.
C15_DestroyIsIdempotent ==
    \A i \in Issues :
        /\ pc[i] \in {"destroy_again", "destroyed_twice"} => hist[i].first.kind = "return"
        /\ pc[i] = "destroyed_twice" =>
              /\ hist[i].second.kind = "return"
              /\ hist[i].second.alive = hist[i].first.alive
              /\ hist[i].second.logs = hist[i].first.logs

\* C15, amended: destroySandbox never raises, whatever kill does; once the
\* sandbox is gone a further call leaves the live sandboxes as they are; a
\* call adds at most its own Destroyed line to ctx.logs.
C15_DestroyNeverRaisesAndStaysGone ==
    \A i \in Issues :
        /\ pc[i] \in {"destroy_again", "destroyed_twice"} => hist[i].first.kind = "return"
        /\ pc[i] = "destroyed_twice" =>
              /\ hist[i].second.kind = "return"
              /\ loc[i].ctx.sandboxId \notin hist[i].first.alive
                    => hist[i].second.alive = hist[i].first.alive
              /\ hist[i].second.alive \subseteq hist[i].first.alive
              /\ hist[i].second.logs \in
                    {hist[i].first.logs,
                     Append(hist[i].first.logs,
                            L("[sandbox] Destroyed", ToString(loc[i].ctx.sandboxId)))}

C15_Witness ==
    \E i \in Issues :
        /\ pc[i] = "destroyed_twice"
        /\ loc[i].ctx.sandboxId \in hist[i].first.before
        /\ hist[i].first.out = "raise_gone"
        /\ hist[i].second.out = "raise_gone"
        /\ alive # {}

\* C16: when the sandbox was created and the clone succeeded, the pipeline
\* writes status fixing and runs the agent, whatever manifest detection and
\* the install command did.
C16_InstallNeverBlocksFixing ==
    \A i \in Issues :
        (/\ pc[i] = "done"
         /\ hist[i].calls.cloneRepo = 1
         /\ ~hist[i].cloneFailed)
            => /\ "fixing" \in Range(hist[i].trace)
               /\ hist[i].calls.agent = 1

\* Whether a location lies in the repository directory.
C17_InsideRepo(target) ==
    /\ Len(target) > Len(RepoDir)
    /\ SubSeq(target, 1, Len(RepoDir)) = RepoDir

\* A relative path without a step above its directory.
C17_PlainRelative(path) ==
    /\ pathSegments(path)[1] # ""
    /\ ".." \notin Range(pathSegments(path))

\* C17: every path the agent writes lands inside the repository directory,
\* and no path with a traversal or absolute path is written or reported in
\* filesChanged.
C17_WritesStayInRepo ==
    \A i \in Issues :
        /\ \A w \in hist[i].written :
              C17_InsideRepo(w.target) /\ C17_PlainRelative(w.path)
        /\ \A k \in 1 .. Len(loc[i].agentResult.filesChanged) :
              C17_PlainRelative(loc[i].agentResult.filesChanged[k])

\* C18: when the issue is terminal, at least one entry was appended to its
\* sandboxLogs after each error the pipeline absorbed.
C18_AbsorbedErrorsAreLogged ==
    \A i \in Issues :
        pc[i] = "done" =>
            \A k \in 1 .. Len(hist[i].errors) :
                Len(store[i].sandboxLogs) > hist[i].errors[k].logLen

\* C19: the issue is saved with status received before any other status is
\* written; processIssue returns before any awaited call of the pipeline has
\* completed; the value returned is the issue as built, status received, and
\* stays so whatever the pipeline does later.
C19_AcknowledgedBeforePipeline ==
    \A i \in Issues :
        /\ i \in DOMAIN store => Head(hist[i].trace) = "received"
        /\ CallsSettled(hist[i]) > 0 => hist[i].ack.returned
        /\ hist[i].ack.returned =>
              /\ hist[i].ack.settled = 0
              /\ hist[i].ack.value = hist[i].issueObj
              /\ hist[i].ack.value.status = "received"
              /\ hist[i].ack.value.id = i

C19_Witness ==
    \E i \in Issues :
        /\ pc[i] = "done"
        /\ store[i].status = "merged"
        /\ hist[i].ack.returned
        /\ hist[i].ack.value.status = "received"

\* The record of an issue, if it has one.
C20_Record(s, i) == IF i \in DOMAIN s THEN s[i] ELSE Undef

\* A log without the sandbox ids the service handed out.
C20_WithoutIds(logs) ==
    [k \in 1 .. Len(logs) |->
        IF logs[k][1] = "E2B sandbox created" THEN L(logs[k][1], "id") ELSE logs[k]]

\* A step of issue i leaves the record, the locals, the history and the
\* sandboxes of every other issue as they are.
C20_NoInterference ==
    \A i, j \in Issues :
        (i # j /\ (pc'[i] # pc[i] \/ hist'[i] # hist[i])) =>
            /\ C20_Record(store', j) = C20_Record(store, j)
            /\ loc'[j] = loc[j]
            /\ hist'[j] = hist[j]
            /\ pc'[j] = pc[j]
            /\ alive' \cap hist[j].allocated = alive \cap hist[j].allocated

\* Two finished pipelines that got the same answers from their collaborators
\* have the same status, decision and log, however their steps interleaved.
C20_SameAnswersSameResult ==
    \A i, j \in Issues :
        (pc[i] = "done" /\ pc[j] = "done" /\ hist[i].responses = hist[j].responses) =>
            /\ store[i].status = store[j].status
            /\ store[i].aiDecision = store[j].aiDecision
            /\ store[i].aiReason = store[j].aiReason
            /\ store[i].prUrl = store[j].prUrl
            /\ C20_WithoutIds(store[i].sandboxLogs) = C20_WithoutIds(store[j].sandboxLogs)

\* C20: with two pipelines interleaved in any order, no step of one changes
\* the record, log or sandbox of the other, and the final status and log of
\* an issue depend on the answers its own pipeline got only.
C20_PipelinesAreIndependent ==
    [][C20_NoInterference]_vars /\ []C20_SameAnswersSameResult

C20_Witness ==
    /\ \A i \in Issues : pc[i] = "done"
    /\ hist["i1"].responses = hist["i2"].responses
    /\ store["i1"].status = "merged"
    /\ store["i1"].sandboxId = "2"
    /\ store["i2"].sandboxId = "1"
    /\ Len(store["i2"].sandboxLogs) > 2

\* C21: an issue whose status is sandboxing, fixing, pr_opened, merged or
\* notified had status classifying before, and the classification call is
\* made while the status is classifying.
C21_NeverSkipsClassifying ==
    \A i \in Issues :
        /\ StatusOf(store, i) \in {"sandboxing", "fixing", "pr_opened", "merged", "notified"}
              => \E k \in 1 .. Len(hist[i].trace) - 1 : hist[i].trace[k] = "classifying"
        /\ hist[i].calls.classify > 0 => hist[i].at.classify.status = "classifying"

C21_Witness ==
    \E i \in Issues :
        /\ StatusOf(store, i) = "pr_opened"
        /\ hist[i].calls.classify = 1
        /\ hist[i].trace[2] = "classifying"
        /\ hist[i].calls.agent = 1

EndsWith(s, t) ==
    /\ Len(t) <= Len(s)
    /\ SubSeq(s, Len(s) - Len(t) + 1, Len(s)) = t

\* C22 as stated: sandbox creation and clone are called with status
\* sandboxing stored, the agent is called with the sandbox logs appended and
\* status fixing stored, and the change request is called after the agent
\* ran and its logs were appended to the issue log.
C22_PhasesStrictlyOrdered ==
    \A i \in Issues :
        /\ hist[i].calls.createSandbox > 0 => hist[i].at.createSandbox.status = "sandboxing"
        /\ hist[i].calls.cloneRepo > 0 => hist[i].at.cloneRepo.status = "sandboxing"
        /\ pc[i] = "agent"
              => /\ store[i].status = "fixing"
                 /\ EndsWith(store[i].sandboxLogs, loc[i].ctx.logs)
        /\ hist[i].calls.agent > 0 => hist[i].at.agent.status = "fixing"
        /\ hist[i].calls.github > 0
              => /\ hist[i].calls.agent > 0
                 /\ EndsWith(hist[i].at.github.sandboxLogs, loc[i].agentResult.logs)

\* C22 amended: the same order for the sandbox and the agent; the change
\* request is called with status fixing stored and, outside demo mode, after
\* the agent ran and its logs were appended; in demo mode no agent runs and
\* the change request is called after the demo lines were appended.
C22_PhasesOrderedPerMode ==
    \A i \in Issues :
        /\ hist[i].calls.createSandbox > 0 => hist[i].at.createSandbox.status = "sandboxing"
        /\ hist[i].calls.cloneRepo > 0 => hist[i].at.cloneRepo.status = "sandboxing"
        /\ pc[i] = "agent"
              => /\ store[i].status = "fixing"
                 /\ EndsWith(store[i].sandboxLogs, loc[i].ctx.logs)
        /\ hist[i].calls.agent > 0 => hist[i].at.agent.status = "fixing"
        /\ hist[i].calls.github > 0
              => /\ hist[i].at.github.status = "fixing"
                 /\ IF env.demoMode
                    THEN /\ hist[i].calls.agent = 0
                         /\ EndsWith(hist[i].at.github.sandboxLogs,
                                     <<L("[demo] Placeholder fix generated", "")>>)
                    ELSE /\ hist[i].calls.agent > 0
                         /\ Len(loc[i].agentResult.logs) > 0
                         /\ EndsWith(hist[i].at.github.sandboxLogs, loc[i].agentResult.logs)

C22_Witness ==
    \E i \in Issues :
        /\ ~env.demoMode
        /\ hist[i].calls.github = 1
        /\ hist[i].calls.agent = 1
        /\ hist[i].at.agent.status = "fixing"
        /\ Len(hist[i].at.github.sandboxLogs) > Len(hist[i].at.agent.sandboxLogs)

\* C23: when the classification decision is MANUAL the status goes from
\* classifying to notified and nowhere else; no sandbox is created, the agent
\* is not run and the change request is not called.
C23_ManualGoesStraightToNotified ==
    \A i \in Issues :
        (hist[i].calls.classify > 0 /\ loc[i].classification.decision = "MANUAL")
            => /\ hist[i].trace \in {<<"received", "classifying">>,
                                     <<"received", "classifying", "notified">>}
               /\ pc[i] = "done" => store[i].status = "notified"
               /\ hist[i].calls.createSandbox = 0
               /\ hist[i].calls.cloneRepo = 0
               /\ hist[i].calls.agent = 0
               /\ hist[i].calls.github = 0
               /\ hist[i].allocated = {}

C23_Witness ==
    \E i \in Issues :
        /\ pc[i] = "done"
        /\ hist[i].classified.kind = "return"
        /\ loc[i].classification.decision = "MANUAL"
        /\ hist[i].calls.manualEmail = 1
        /\ store[i].status = "notified"

\* The manual-review notification was attempted and could not be sent (the
\* summary notification is the other one, and no run attempts both).
NotificationFailed(h) ==
    /\ h.calls.manualEmail > 0
    /\ h.calls.fixEmail = 0
    /\ \E k \in DOMAIN h.errors : h.errors[k].kind = "notification"

\* C24: whether or not the manual-review notification could be sent, the
\* MANUAL path, the agent-failure path and the sandbox-failure path end in
\* notified, and notified is stored only after the notification was invoked.
C24_NotificationFailureKeepsOutcome ==
    \A i \in Issues :
        /\ StatusOf(store, i) = "notified" => hist[i].calls.manualEmail = 1
        /\ hist[i].calls.manualEmail > 0 => store[i].status = "notified"
        /\ (pc[i] = "done" /\ hist[i].calls.github = 0)
              => /\ store[i].status = "notified"
                 /\ hist[i].calls.manualEmail = 1
        /\ (pc[i] = "done" /\ NotificationFailed(hist[i])) => store[i].status = "notified"

C24_Witness ==
    \E i \in Issues :
        /\ pc[i] = "done"
        /\ NotificationFailed(hist[i])
        /\ hist[i].calls.agent = 1
        /\ store[i].status = "notified"

C24_WitnessManualPath ==
    \E i \in Issues :
        /\ pc[i] = "done"
        /\ NotificationFailed(hist[i])
        /\ hist[i].calls.createSandbox = 0
        /\ store[i].status = "notified"

C24_WitnessSandboxPath ==
    \E i \in Issues :
        /\ pc[i] = "done"
        /\ NotificationFailed(hist[i])
        /\ hist[i].cloneFailed
        /\ store[i].status = "notified"

\* C25: once merged or pr_opened is stored the summary notification is the
\* step that follows; it is attempted once, and whether it is sent or not,
\* no field of the issue record changes, then or later.
C25_SummaryLeavesRecordAlone ==
    /\ [](\A i \in Issues :
            StatusOf(store, i) \in {"merged", "pr_opened"}
                => /\ pc[i] \in {"summary_email", "done"}
                   /\ hist[i].calls.fixEmail = IF pc[i] = "done" THEN 1 ELSE 0)
    /\ [][\A i \in Issues :
            StatusOf(store, i) \in {"merged", "pr_opened"} => store'[i] = store[i]]_vars

C25_Witness ==
    \E i \in Issues :
        /\ pc[i] = "done"
        /\ store[i].status = "merged"
        /\ hist[i].calls.fixEmail = 1
        /\ hist[i].calls.manualEmail = 0
        /\ \E k \in DOMAIN hist[i].errors : hist[i].errors[k].kind = "notification"

\* C26: outside demo mode, when the change request is called the file set
\* handed to it is not empty and holds every path of the agent's
\* filesChanged, read back while the sandbox was still alive.
C26_ChangeRequestGetsEveryChangedFile ==
    \A i \in Issues :
        /\ (~env.demoMode /\ hist[i].calls.github > 0)
            => /\ hist[i].githubFiles # <<>>
               /\ Range(loc[i].agentResult.filesChanged) \subseteq Range(hist[i].githubFiles)
        /\ pc[i] = "readback"
              => /\ hist[i].calls.destroy = 0
                 /\ loc[i].ctx.sandboxId \in alive

\* The part of C26 that holds: the files are read while the sandbox is alive,
\* and what is handed over is a sub-list of filesChanged.
C26_ReadBackBeforeDestroy ==
    \A i \in Issues :
        /\ pc[i] = "readback"
              => /\ hist[i].calls.destroy = 0
                 /\ loc[i].ctx.sandboxId \in alive
        /\ (~env.demoMode /\ hist[i].calls.github > 0)
              => Range(hist[i].githubFiles) \subseteq Range(loc[i].agentResult.filesChanged)

\* C27: when the status goes from fixing to notified the stored aiReason
\* carries the agent's error message, whether the agent reported a failure or
\* a success with no changed file.
C27_EscalationCarriesAgentError ==
    \A i \in Issues :
        (StatusOf(store, i) = "notified" /\ "fixing" \in Range(hist[i].trace))
            => /\ loc[i].agentResult.error # Undef
               /\ store[i].aiReason = L("Agent failed", loc[i].agentResult.error)

\* The part of C27 that holds: after a reported failure the reason is the
\* agent's message behind the words "Agent failed".
C27_ReportedFailureCarriesError ==
    \A i \in Issues :
        (StatusOf(store, i) = "notified" /\ hist[i].calls.agent > 0
         /\ loc[i].agentResult # NoAgentResult /\ ~loc[i].agentResult.success)
            => /\ loc[i].agentResult.error # Undef
               /\ store[i].aiReason = L("Agent failed", loc[i].agentResult.error)

C27_SuccessWithoutFilesReached ==
    \E i \in Issues :
        /\ StatusOf(store, i) = "notified"
        /\ loc[i].agentResult.success
        /\ loc[i].agentResult.filesChanged = <<>>
        /\ store[i].aiReason = L("Agent failed", Undef)

\* C28: in one run the classification call, createSandbox, cloneRepo,
\* runCodingAgent and createAndSubmitFix are each invoked at most once, also
\* after one of them failed.
C28_EachStepAtMostOnce ==
    \A i \in Issues :
        \A what \in {"classify", "createSandbox", "cloneRepo", "agent", "github"} :
            hist[i].calls[what] <= 1

C28_Witness ==
    \E i \in Issues :
        /\ pc[i] = "done"
        /\ hist[i].classifyFailed
        /\ hist[i].ghOutcome = "raised"
        /\ hist[i].calls.classify = 1
        /\ hist[i].calls.github = 1

C28_WitnessCloneFailed ==
    \E i \in Issues :
        /\ pc[i] = "done"
        /\ hist[i].cloneFailed
        /\ hist[i].calls.createSandbox = 1
        /\ hist[i].calls.cloneRepo = 1
        /\ hist[i].calls.agent = 0

IsPrefix(s, t) == Len(s) <= Len(t) /\ SubSeq(t, 1, Len(s)) = s

\* C29: the diagnostic log only grows: in every step of the pipeline the
\* sandboxLogs of an issue before the step is a prefix of its sandboxLogs
\* after it (so every earlier value is a prefix of every later one), and the
\* log stored when a call was made is a prefix of the current one.
C29_LogIsAppendOnly ==
    /\ [][\A i \in DOMAIN store :
            /\ i \in DOMAIN store'
            /\ IsPrefix(store[i].sandboxLogs, store'[i].sandboxLogs)]_vars
    /\ [](\A i \in DOMAIN store :
            \A what \in DOMAIN hist[i].at :
                IsPrefix(hist[i].at[what].sandboxLogs, store[i].sandboxLogs))

C29_Witness ==
    \E i \in Issues :
        /\ pc[i] = "done"
        /\ hist[i].calls.agent = 1
        /\ hist[i].at.agent.sandboxLogs # <<>>
        /\ hist[i].calls.manualEmail = 1
        /\ Len(store[i].sandboxLogs) > Len(hist[i].at.agent.sandboxLogs) + 1
        /\ IsPrefix(hist[i].at.agent.sandboxLogs, store[i].sandboxLogs)

\* C30: a decision that was stored is never removed; a step that changes it
\* writes MANUAL, is taken while the status is sandboxing or fixing, and is
\* part of an escalation: the run then ends in notified.
C30_DecisionOnlyEscalates ==
    /\ [][\A i \in DOMAIN store :
            store[i].aiDecision # Undef
                => /\ store'[i].aiDecision # Undef
                   /\ store'[i].aiDecision # store[i].aiDecision
                         => /\ store'[i].aiDecision = "MANUAL"
                            /\ store[i].status \in {"sandboxing", "fixing"}
                            /\ pc'[i] = "agent_email" \/ store'[i].status = "notified"]_vars
    /\ [](\A i \in DOMAIN store :
            /\ hist[i].calls.classify > 0
                  => store[i].aiDecision \in {loc[i].classification.decision, "MANUAL"}
            /\ (pc[i] = "done" /\ hist[i].calls.classify > 0
                 /\ store[i].aiDecision # loc[i].classification.decision)
                  => store[i].status = "notified")

C30_Witness ==
    \E i \in Issues :
        /\ pc[i] = "done"
        /\ loc[i].classification.decision = "AUTOMATED"
        /\ store[i].aiDecision = "MANUAL"
        /\ hist[i].trace = <<"received", "classifying", "sandboxing", "fixing", "notified">>

C30_WitnessFromSandboxing ==
    \E i \in Issues :
        /\ pc[i] = "done"
        /\ loc[i].classification.decision = "AUTOMATED"
        /\ store[i].aiDecision = "MANUAL"
        /\ hist[i].trace = <<"received", "classifying", "sandboxing", "notified">>

\* C31: once the candidates are known, the read loop fails the agent only
\* when it read nothing: with at least one readable candidate generateFix is
\* called with exactly the readable ones (the others are skipped, one log
\* line each); with none, an empty candidate list included, generateFix is
\* not called and the agent returns a failure.
C31_AgentFailsOnlyWhenNothingRead ==
    \A i \in Issues :
        LET r == hist[i].readStep
            skipped == {p \in Range(r.candidates) : p \notin r.readOk}
        IN  r.reached
            => /\ r.readOk # {}
                  => /\ r.generateFix.called
                     /\ r.generateFix.files = r.readOk
                     /\ ~hist[i].agentRaised
                        => \A p \in skipped :
                             L("Skipped (read error)", p) \in Range(loc[i].agentResult.logs)
               /\ r.readOk = {}
                  => /\ ~r.generateFix.called
                     /\ ~hist[i].agentRaised
                        => /\ ~loc[i].agentResult.success
                           /\ loc[i].agentResult.error =
                                 "Could not read any relevant files from the sandbox."

C31_Witness ==
    \E i \in Issues :
        /\ hist[i].readStep.reached
        /\ Len(hist[i].readStep.candidates) = 2
        /\ Cardinality(hist[i].readStep.readOk) = 1
        /\ hist[i].readStep.generateFix.called
        /\ loc[i].agentResult.success

C31_WitnessNothingRead ==
    \E i \in Issues :
        /\ hist[i].readStep.reached
        /\ Len(hist[i].readStep.candidates) = 2
        /\ hist[i].readStep.readOk = {}
        /\ ~loc[i].agentResult.success
        /\ store[i].status = "notified"

\* The reply parses to an object whose `files` member is a list.
HasFilesList(out) ==
    /\ out.parses
    /\ out.value.t = "object"
    /\ out.value.files.t = "array"

\* C32: whatever the reply, identifyRelevantFiles returns a list of at most
\* five paths and does not raise; for a reply that does not parse to an
\* object with a files list it returns the first (at most three) source files
\* of the listing, in listing order.
C32_IdentifyIsBoundedAndFallsBack ==
    \A i \in Issues :
        pc[i] = "identified" /\ loc[i].input[1].ok
            => LET out == loc[i].input[1]
                   allFiles == loc[i].input[2]
                   res == hist[i].output
                   sources == SelectSeq(allFiles, LAMBDA f : extension(f) \in {"ts", "js", "tsx", "jsx", "py"})
               IN  /\ res.kind = "return"
                   /\ res.value.t = "array"
                   /\ Len(res.value.v) <= 5
                   /\ ~HasFilesList(out)
                        => /\ Len(res.value.v) <= 3
                           /\ res.value.v = SubSeq(sources, 1, Len(res.value.v))
                           /\ Len(res.value.v) = 3 \/ res.value.v = sources

\* The part of C32 that holds: the same, for the replies whose `files`
\* member is not a string.
C32_HoldsUnlessFilesIsAString ==
    \A i \in Issues :
        (pc[i] = "identified" /\ loc[i].input[1].ok
         /\ ~(loc[i].input[1].parses /\ loc[i].input[1].value.t = "object"
              /\ loc[i].input[1].value.files.t = "string"))
            => LET out == loc[i].input[1]
                   allFiles == loc[i].input[2]
                   res == hist[i].output
                   sources == SelectSeq(allFiles, LAMBDA f : extension(f) \in {"ts", "js", "tsx", "jsx", "py"})
               IN  /\ res.kind = "return"
                   /\ res.value.t = "array"
                   /\ Len(res.value.v) <= 5
                   /\ HasFilesList(out)
                        => res.value.v = SubSeq(out.value.files.v, 1, Len(res.value.v))
                   /\ ~HasFilesList(out)
                        => /\ Len(res.value.v) <= 3
                           /\ res.value.v = SubSeq(sources, 1, Len(res.value.v))
                           /\ Len(res.value.v) = 3 \/ res.value.v = sources

\* Some part of a text is an object that JSON.parse accepts, as it is or
\* after the repair pass.
HoldsAnObject(text) ==
    \E a \in 1 .. Len(text), b \in 1 .. Len(text) :
        /\ a <= b
        /\ \/ jsonParses(SubSeq(text, a, b))
           \/ jsonParses(sanitize(SubSeq(text, a, b)))

\* C33: from a reply made of prose, one valid object and prose again,
\* generateFix returns that object; from a reply that holds no object it
\* raises.
C33_ObjectRecoveredFromProse ==
    \A i \in Issues :
        pc[i] = "generated" /\ loc[i].input.ok
            => LET in == loc[i].input
                   res == hist[i].output
               IN  /\ in.obj # <<>>
                        => /\ res.kind = "return"
                           /\ res.value = jsonValue(in.obj, FALSE)
                   /\ ~HoldsAnObject(in.pre \o in.obj \o in.post)
                        => res.kind = "throw"

\* The part of C33 that holds: the object is recovered when the prose before
\* it holds no opening brace and the reply no pair of fences, whatever else
\* the prose holds; and a reply that holds no object makes generateFix raise.
C33_RecoveredWhenProseHasNoBrace ==
    \A i \in Issues :
        pc[i] = "generated" /\ loc[i].input.ok
            => LET in == loc[i].input
                   res == hist[i].output
                   text == in.pre \o in.obj \o in.post
                   fences == {k \in 1 .. Len(text) : text[k] = "f"}
               IN  /\ (in.obj # <<>> /\ "{" \notin Range(in.pre) /\ Cardinality(fences) < 2)
                        => /\ res.kind = "return"
                           /\ res.value = jsonValue(in.obj, FALSE)
                   /\ ~HoldsAnObject(text) => res.kind = "throw"

C33_ProseWithBraceReached ==
    \E i \in Issues :
        /\ pc[i] = "generated"
        /\ loc[i].input.ok
        /\ loc[i].input.pre = <<"a", "{", "a">>
        /\ loc[i].input.obj = <<"{", "a", "}">>
        /\ hist[i].output.kind = "throw"

\* The install command of the first manifest present in a directory, in the
\* order of C34.
C34_CommandFor(files) ==
    CASE "package-lock.json" \in files -> <<"npm install --legacy-peer-deps">>
      [] "yarn.lock" \in files -> <<"yarn install --non-interactive">>
      [] "pnpm-lock.yaml" \in files -> <<"pnpm install --frozen-lockfile">>
      [] "requirements.txt" \in files -> <<"pip install -r requirements.txt">>
      [] "pyproject.toml" \in files -> <<"pip install .">>
      [] OTHER -> <<>>

\* C34: installDependencies runs at most one install command, the one of the
\* first manifest present in the order package-lock.json, yarn.lock,
\* pnpm-lock.yaml, requirements.txt, pyproject.toml; with none of them
\* present it runs no command and returns normally.
C34_InstallsByFirstManifest ==
    \A i \in Issues :
        pc[i] = "installed" /\ hist[i].output.ls = "ok"
            => LET files == loc[i].input
                   res == hist[i].output.res
               IN  /\ res.kind = "return"
                   /\ Len(res.ran) <= 1
                   /\ res.ran = C34_CommandFor(files)

\* The part of C34 that holds: the same, for the directories in which no
\* file name contains the name of a manifest.
C34_HoldsForPlainNames ==
    \A i \in Issues :
        (pc[i] = "installed" /\ hist[i].output.ls = "ok"
         /\ loc[i].input \cap {"dev-requirements.txt", "package-lock.json.bak"} = {})
            => LET files == loc[i].input
                   res == hist[i].output.res
               IN  /\ res.kind = "return"
                   /\ Len(res.ran) <= 1
                   /\ res.ran = C34_CommandFor(files)

\* The repository has nothing to run: no test or build script in a
\* package.json and no Python tests.
C35_NothingToRun(repo) ==
    /\ ~repo.hasPkg \/ repo.scripts \cap {"test", "build"} = {}
    /\ repo.python = "none"

\* C35: runTestsOrBuild reports success for a repository with nothing to
\* run, and reports a command that fails (non-zero exit or rejected call) as
\* success = false instead of raising.
C35_TrivialSuccessAndReportedFailure ==
    \A i \in Issues :
        (pc[i] = "tested" /\ hist[i].output.calls.probe = "ok"
         /\ hist[i].output.calls.cat = "ok")
            => LET repo == loc[i].input
                   calls == hist[i].output.calls
                   res == hist[i].output.res
               IN  /\ C35_NothingToRun(repo) => res.kind = "return" /\ res.success
                   /\ (~C35_NothingToRun(repo) /\ res.ran # Undef
                       /\ (calls.cmd = "raise"
                           \/ (res.ran = "python -m pytest --tb=short -q" /\ repo.python = "failing")
                           \/ (res.ran # "python -m pytest --tb=short -q" /\ ~repo.scriptPasses)))
                        => res.kind = "return" /\ ~res.success

\* The part of C35 that holds: the same, for repositories with a
\* package.json.
C35_HoldsWithPackageJson ==
    \A i \in Issues :
        (pc[i] = "tested" /\ hist[i].output.calls.probe = "ok"
         /\ hist[i].output.calls.cat = "ok")
            => LET repo == loc[i].input
                   calls == hist[i].output.calls
                   res == hist[i].output.res
               IN  /\ (repo.hasPkg /\ C35_NothingToRun(repo))
                        => res.kind = "return" /\ res.success
                   /\ (res.ran # Undef
                       /\ (calls.cmd = "raise"
                           \/ (res.ran = "python -m pytest --tb=short -q" /\ repo.python # "passing")
                           \/ (res.ran # "python -m pytest --tb=short -q" /\ ~repo.scriptPasses)))
                        => res.kind = "return" /\ ~res.success

C36_Immutable ==
    {"id", "title", "description", "stepsToReproduce", "severity", "repoUrl", "createdAt"}

C36_Written ==
    {"status", "aiDecision", "aiReason", "sandboxId", "sandboxLogs", "branchName",
     "prUrl", "patchSummary", "commitMessage"}

C37_CreateSandboxAllOrNothing ==
    \A i \in Issues :
        hist[i].calls.createSandbox > 0
            => /\ loc[i].ctx = NoCtx => hist[i].allocated = {}
               /\ loc[i].ctx # NoCtx => hist[i].allocated = {loc[i].ctx.sandboxId}
               /\ pc[i] = "done"
                    => \A s \in hist[i].allocated \cap alive :
                          /\ hist[i].calls.destroy > 0
                          /\ loc[i].ctx # NoCtx
                          /\ s = loc[i].ctx.sandboxId

\* The part of C37 that holds: the same, for reports that carry a repoUrl.
C37_HoldsWithRepoUrl ==
    \A i \in DOMAIN store :
        (hist[i].calls.createSandbox > 0 /\ store[i].repoUrl # Undef)
            => /\ loc[i].ctx = NoCtx => hist[i].allocated = {}
               /\ loc[i].ctx # NoCtx => hist[i].allocated = {loc[i].ctx.sandboxId}
               /\ pc[i] = "done"
                    => \A s \in hist[i].allocated \cap alive :
                          /\ hist[i].calls.destroy > 0
                          /\ loc[i].ctx # NoCtx
                          /\ s = loc[i].ctx.sandboxId

C37_LeakReached ==
    \E i \in DOMAIN store :
        /\ pc[i] = "done"
        /\ store[i].repoUrl = Undef
        /\ store[i].status = "notified"
        /\ hist[i].allocated \cap alive # {}
        /\ hist[i].calls.destroy = 0

\* C38: in every state an issue with status notified has aiDecision MANUAL,
\* an issue with status pr_opened or merged has aiDecision AUTOMATED, and the
\* change request is called only for an issue whose stored aiDecision is
\* AUTOMATED.
C38_DecisionMatchesStatus ==
    \A i \in DOMAIN store :
        /\ store[i].status = "notified" => store[i].aiDecision = "MANUAL"
        /\ store[i].status \in {"pr_opened", "merged"} => store[i].aiDecision = "AUTOMATED"
        /\ pc[i] = "github" => store[i].aiDecision = "AUTOMATED"
        /\ hist[i].calls.github > 0 => store[i].aiDecision = "AUTOMATED"

C38_Witness ==
    \E i \in DOMAIN store :
        /\ pc[i] = "done"
        /\ store[i].status = "pr_opened"
        /\ store[i].aiDecision = "AUTOMATED"
        /\ hist[i].calls.github = 1
        /\ hist[i].classifyOut.ok

C38_WitnessEscalated ==
    \E i \in DOMAIN store :
        /\ pc[i] = "done"
        /\ store[i].status = "notified"
        /\ store[i].aiDecision = "MANUAL"
        /\ loc[i].classification.decision = "AUTOMATED"
        /\ hist[i].calls.github = 0

\* C39: in every state prUrl and branchName are set exactly when the status
\* is pr_opened or merged, and an issue whose status is notified or failed
\* has none of prUrl, branchName, patchSummary and commitMessage set.
C39_PrFieldsFollowStatus ==
    \A i \in DOMAIN store :
        /\ store[i].prUrl # Undef <=> store[i].status \in {"pr_opened", "merged"}
        /\ store[i].branchName # Undef <=> store[i].status \in {"pr_opened", "merged"}
        /\ store[i].status \in {"notified", "failed"} =>
              /\ store[i].prUrl = Undef
              /\ store[i].branchName = Undef
              /\ store[i].patchSummary = Undef
              /\ store[i].commitMessage = Undef

\* The part of C39 that holds: as long as the handler of line 39 has not run,
\* the four fields are set exactly with pr_opened / merged.
C39_HoldsUntilCrashHandler ==
    \A i \in DOMAIN store :
        pc[i] # "handled" =>
            /\ store[i].prUrl # Undef <=> store[i].status \in {"pr_opened", "merged"}
            /\ store[i].branchName # Undef <=> store[i].status \in {"pr_opened", "merged"}
            /\ store[i].patchSummary # Undef <=> store[i].status \in {"pr_opened", "merged"}
            /\ store[i].commitMessage # Undef <=> store[i].status \in {"pr_opened", "merged"}

\* The failing case: failed, with the change request's fields still stored.
C39_FailedWithPrReached ==
    \E i \in DOMAIN store :
        /\ pc[i] = "handled"
        /\ store[i].status = "failed"
        /\ store[i].prUrl = "pr/1"
        /\ store[i].branchName = "fix/1"
        /\ store[i].patchSummary # Undef
        /\ store[i].commitMessage # Undef

\* C40: with DEMO_MODE on and an AUTOMATED classification no sandbox is
\* created and the coding agent is not run; the status goes through
\* sandboxing and fixing before the change request is called, the change
\* request is called once with exactly the one placeholder file, and the
\* pipeline ends with status merged, pr_opened or failed, never notified.
C40_DemoModeSkipsSandboxAndAgent ==
    \A i \in DOMAIN store :
        (env.demoMode /\ loc[i].classification.decision = "AUTOMATED") =>
            /\ hist[i].calls.createSandbox = 0
            /\ hist[i].calls.agent = 0
            /\ created = 0
            /\ store[i].sandboxId = Undef
            /\ store[i].status # "notified"
            /\ hist[i].calls.manualEmail = 0
            /\ pc[i] = "github" =>
                  /\ hist[i].trace = <<"received", "classifying", "sandboxing", "fixing">>
                  /\ loc[i].filesForGithub = <<".site-surgeon/last-fix.md">>
            /\ hist[i].calls.github > 0 =>
                  /\ hist[i].calls.github = 1
                  /\ Len(hist[i].githubFiles) = 1
                  /\ hist[i].githubFiles = <<".site-surgeon/last-fix.md">>
            /\ pc[i] = "done" =>
                  /\ hist[i].calls.github = 1
                  /\ store[i].status \in {"merged", "pr_opened", "failed"}
                  /\ \E last \in {"merged", "pr_opened", "failed"} :
                        hist[i].trace =
                            <<"received", "classifying", "sandboxing", "fixing", last>>

C40_Witness ==
    \E i \in DOMAIN store :
        /\ env.demoMode
        /\ loc[i].classification.decision = "AUTOMATED"
        /\ pc[i] = "done"
        /\ hist[i].trace = <<"received", "classifying", "sandboxing", "fixing", "merged">>
        /\ hist[i].githubFiles = <<".site-surgeon/last-fix.md">>
        /\ hist[i].calls.createSandbox = 0

C40_WitnessFailed ==
    \E i \in DOMAIN store :
        /\ env.demoMode
        /\ loc[i].classification.decision = "AUTOMATED"
        /\ pc[i] = "done"
        /\ store[i].status = "failed"
        /\ hist[i].calls.github = 1

====
